---------------------------- MODULE Spec2Model ----------------------------
(***************************************************************************)
(* A model of the cache-hierarchy simulator of src/cachesim.{h,cpp} and of *)
(* the tracer glue of src/memtrace.c.                                      *)
(*                                                                         *)
(* 64-bit and 32-bit machine words are modelled as the set of their one    *)
(* bits (bit 0 is the least significant), so that shifts, masks and the    *)
(* VALID / DIRTY flag bits behave exactly as in the code without leaving   *)
(* the range of numbers the model checker can represent.                   *)
(***************************************************************************)
EXTENDS Integers, Sequences, FiniteSets, TLC

(***************************************************************************)
(* Bounds of the model.                                                    *)
(***************************************************************************)
\* The number of cachesim_ld / cachesim_st / cachesim_fc calls of one run.
MaxIngest == 2
\* The number of cachesim_ld / cachesim_st calls of one run on L1 caches alone.
MaxTrace == 4
\* The number of cachesim_destroy calls of one run.
MaxDestroy == 2
\* The number of helper_memtrace_ld / _st / _fc calls of one run.
MaxMemtrace == 2

(***************************************************************************)
(* Machine words.                                                          *)
(***************************************************************************)
\* uint64_t: bit positions 0..63.
WordBits == 64
\* uint32_t (lfsr_t::reg): bit positions 0..31.
RegBits == 32

RECURSIVE Pow2(_)
Pow2(k) == IF k = 0 THEN 1 ELSE 2 * Pow2(k - 1)

\* The word of a natural number: the set of its one bits.
RECURSIVE BitsFrom(_, _)
BitsFrom(n, b) == IF n = 0 THEN {}
                  ELSE (IF n % 2 = 1 THEN {b} ELSE {}) \cup BitsFrom(n \div 2, b + 1)
W(n) == BitsFrom(n, 0)

\* The number of a word (of a word small enough to be one here).
RECURSIVE Val(_)
Val(w) == IF w = {} THEN 0
          ELSE LET b == CHOOSE x \in w : TRUE IN Pow2(b) + Val(w \ {b})

\* w >> k
Shr(w, k) == {b - k : b \in {x \in w : x >= k}}
\* w << k on a 64-bit word
Shl(w, k) == {b + k : b \in {x \in w : x + k < WordBits}}
\* a ^ b
Xor(a, b) == (a \ b) \cup (b \ a)
\* a & ~b
AndNot(a, b) == a \ b

\* The value of a RegBits-bit word mod m, from the top bit down, without
\* forming the value.
RECURSIVE WordModFrom(_, _, _, _)
WordModFrom(w, m, b, acc) ==
    IF b < 0 THEN acc
    ELSE WordModFrom(w, m, b - 1, (2 * acc + (IF b \in w THEN 1 ELSE 0)) % m)
WordMod(w, m) == WordModFrom(w, m, RegBits - 1, 0)

(***************************************************************************)
(* cache_sim_t constants (cachesim.h).                                     *)
(***************************************************************************)
\* static const uint64_t VALID = 1ULL << 63
VALID == {63}
\* static const uint64_t DIRTY = 1ULL << 62
DIRTY == {62}

(***************************************************************************)
(* lfsr_t (cachesim.h).                                                    *)
(***************************************************************************)
\* lfsr_t() : reg(1)
lfsr_init == {0}
\* the feedback polynomial 0xd0000001
lfsr_poly == {0, 28, 30, 31}
\* next(): reg = (reg>>1) ^ (-(reg&1) & 0xd0000001)
lfsr_next(reg) == Xor(Shr(reg, 1), IF 0 \in reg THEN lfsr_poly ELSE {})

(***************************************************************************)
(* Configuration strings and cache_sim_t::construct / init (cachesim.cpp). *)
(* A C string is the sequence of its characters.                           *)
(***************************************************************************)
isdigit(c) == c \in {"0", "1", "2", "3", "4", "5", "6", "7", "8", "9"}
digit(c) == CASE c = "0" -> 0 [] c = "1" -> 1 [] c = "2" -> 2 [] c = "3" -> 3
              [] c = "4" -> 4 [] c = "5" -> 5 [] c = "6" -> 6 [] c = "7" -> 7
              [] c = "8" -> 8 [] c = "9" -> 9

\* strchr(s + from - 1, ch): the index of the first ch at or after from, 0 for NULL.
RECURSIVE strchr(_, _, _)
strchr(s, from, ch) == IF from > Len(s) THEN 0
                       ELSE IF s[from] = ch THEN from
                       ELSE strchr(s, from + 1, ch)

\* atoi on an unsigned decimal prefix: the digits up to the first non-digit.
RECURSIVE atoi_from(_, _, _)
atoi_from(s, i, acc) == IF i > Len(s) \/ ~isdigit(s[i]) THEN acc
                        ELSE atoi_from(s, i + 1, acc * 10 + digit(s[i]))
atoi(s) == atoi_from(s, 1, 0)

\* for (size_t x = linesz; x>1; x >>= 1) idx_shift++;
RECURSIVE idx_shift_of(_)
idx_shift_of(x) == IF x > 1 THEN 1 + idx_shift_of(x \div 2) ELSE 0

\* x & (x-1), as a truth value
and_pred(x) == W(x) \cap W(x - 1) # {}

\* init_rejects gone wrong: the test of linesz is missing.
init_rejects_sets_only(sets, linesz) == sets = 0 \/ and_pred(sets)

\* cache_sim_t::init(): the two help() tests
init_rejects(sets, linesz) ==
    \/ sets = 0 \/ and_pred(sets)
    \/ linesz < 8 \/ and_pred(linesz)

\* The object cache_sim_t::init() leaves behind; fa tells which class it is.
new_cache(fa, sets, ways, linesz, name) ==
    [ name |-> name, fa |-> fa,
      sets |-> sets, ways |-> ways, linesz |-> linesz,
      idx_shift |-> idx_shift_of(linesz),
      tags |-> [i \in 0..(sets * ways - 1) |-> {}],
      srcs |-> [i \in 0..(sets * ways - 1) |-> {}],
      fa_tags |-> {},
      lfsr |-> lfsr_init,
      read_accesses |-> 0, read_misses |-> 0, bytes_read |-> 0,
      write_accesses |-> 0, write_misses |-> 0, bytes_written |-> 0,
      writebacks |-> 0,
      trace_miss |-> FALSE, miss_handler |-> "NULL" ]

\* cache_sim_t::construct: [ok |-> FALSE] stands for help() having ended the
\* process; otherwise obj is the constructed level.
construct(config, name) ==
    LET wp0 == strchr(config, 1, ":")
        wp == wp0 + 1
        bp0 == IF wp0 = 0 THEN 0 ELSE strchr(config, wp, ":")
        bp == bp0 + 1
        sets == atoi(SubSeq(config, 1, wp - 1))
        ways == atoi(SubSeq(config, wp, bp - 1))
        linesz == atoi(SubSeq(config, bp, Len(config)))
        fa == ways > 4 /\ sets = 1
    IN IF wp0 = 0 \/ bp0 = 0 THEN [ok |-> FALSE]
       ELSE IF init_rejects(IF fa THEN 1 ELSE sets, linesz) THEN [ok |-> FALSE]
       ELSE [ok |-> TRUE,
             obj |-> new_cache(fa, IF fa THEN 1 ELSE sets, ways, linesz, name)]

(***************************************************************************)
(* cache_sim_t::check_tag / victimize / access (cachesim.cpp).             *)
(*                                                                         *)
(* A call of access runs to completion inside one ingest; it is a function *)
(* from the run-time state s = [obj, log, cbs, crashed] to the state after *)
(* the call.  obj maps each constructed level to its object, log is the    *)
(* sequence of calls made during the ingest, cbs counts the calls of the   *)
(* miss callback, crashed tells that the process has died.                 *)
(*                                                                         *)
(* ub is the outcome of undefined behaviour during the ingest: "crash"     *)
(* (the process dies at the faulting statement) or "continue" (the         *)
(* faulting statement has no effect on the simulator's state).             *)
(***************************************************************************)
UBOutcomes == {"crash", "continue"}

\* One entry of the call log.
Ev(ev, lv, from, vaddr, paddr, size, store, tag) ==
    [ev |-> ev, lv |-> lv, from |-> from, vaddr |-> vaddr, paddr |-> paddr,
     size |-> size, store |-> store, tag |-> tag]

\* line_align gone wrong: the address is passed on as it came.
line_align_none(addr, linesz) == addr

\* addr & ~(linesz-1)
line_align(addr, linesz) == AndNot(addr, W(linesz - 1))

\* (addr >> idx_shift) & (sets-1)
set_index(c, addr) == Val(Shr(addr, c.idx_shift) \cap W(c.sets - 1))

\* A uint64_t* as check_tag returns it: null, or the slot it points into
\* (slot at of the array tags, or the value stored under key in the map).
NullPtr == [into |-> "NULL", at |-> 0, key |-> {}]
TagsPtr(at) == [into |-> "tags", at |-> at, key |-> {}]
MapPtr(key) == [into |-> "fa_tags", at |-> 0, key |-> key]

\* check_tag gone wrong: the slot is compared with DIRTY left in it.
cache_sim_check_tag_unmasked(c, addr) ==
    LET idx == set_index(c, addr)
        tag == Shr(addr, c.idx_shift) \cup VALID
        hits == {i \in 0..(c.ways - 1) : tag = c.tags[idx * c.ways + i]}
    IN IF hits = {} THEN NullPtr
       ELSE TagsPtr(idx * c.ways + (CHOOSE i \in hits : \A j \in hits : i <= j))

\* check_tag gone wrong: any VALID slot of the indexed set is taken for a hit.
cache_sim_check_tag_valid_only(c, addr) ==
    LET idx == set_index(c, addr)
        hits == {i \in 0..(c.ways - 1) : 63 \in c.tags[idx * c.ways + i]}
    IN IF hits = {} THEN NullPtr
       ELSE TagsPtr(idx * c.ways + (CHOOSE i \in hits : \A j \in hits : i <= j))

\* cache_sim_t::check_tag: the first way of the indexed set whose tag, DIRTY
\* masked, equals (addr >> idx_shift) | VALID.
cache_sim_check_tag(c, addr) ==
    LET idx == set_index(c, addr)
        tag == Shr(addr, c.idx_shift) \cup VALID
        hits == {i \in 0..(c.ways - 1) :
                    tag = AndNot(c.tags[idx * c.ways + i], DIRTY)}
    IN IF hits = {} THEN NullPtr
       ELSE TagsPtr(idx * c.ways + (CHOOSE i \in hits : \A j \in hits : i <= j))

\* fa_cache_sim_t::check_tag: looks the line number up in the std::map
\* fa_cache_sim_t::tags (fa_tags, a set of <<key, value>> pairs).
fa_check_tag(c, addr) ==
    IF \E e \in c.fa_tags : e[1] = Shr(addr, c.idx_shift)
    THEN MapPtr(Shr(addr, c.idx_shift))
    ELSE NullPtr

\* The virtual call check_tag(addr): fa_cache_sim_t overrides it.
check_tag(c, addr) ==
    IF c.fa THEN fa_check_tag(c, addr) ELSE cache_sim_check_tag(c, addr)

\* set_dirty gone wrong: DIRTY is set on the first way of the set, not on the
\* slot the pointer points to.
set_dirty_first_way(c, p) ==
    IF p.into = "tags"
    THEN [c EXCEPT !.tags[(p.at \div c.ways) * c.ways] = @ \cup DIRTY]
    ELSE c

\* *p |= DIRTY for a pointer p that is not null
set_dirty(c, p) ==
    IF p.into = "tags"
    THEN [c EXCEPT !.tags[p.at] = @ \cup DIRTY]
    ELSE [c EXCEPT !.fa_tags =
            {IF e[1] = p.key THEN <<e[1], e[2] \cup DIRTY>> ELSE e : e \in @}]

\* victimize gone wrong: the victim is taken from set 0, whatever the
\* address.
victimize_first_set(c, addr, src) ==
    LET reg == lfsr_next(c.lfsr)
    IN IF c.ways = 0
       THEN [c |-> [c EXCEPT !.lfsr = reg], victim |-> {}, victim_src |-> {},
             undef |-> TRUE]
       ELSE LET at == WordMod(reg, c.ways)
            IN [c |-> [c EXCEPT !.lfsr = reg,
                                !.tags[at] = Shr(addr, c.idx_shift) \cup VALID,
                                !.srcs[at] = src],
                victim |-> c.tags[at],
                victim_src |-> c.srcs[at],
                undef |-> FALSE]

\* victimize gone wrong: the src of the slot is not replaced.
victimize_keep_src(c, addr, src) ==
    LET idx == set_index(c, addr)
        reg == lfsr_next(c.lfsr)
    IN IF c.ways = 0
       THEN [c |-> [c EXCEPT !.lfsr = reg], victim |-> {}, victim_src |-> {},
             undef |-> TRUE]
       ELSE LET at == idx * c.ways + WordMod(reg, c.ways)
            IN [c |-> [c EXCEPT !.lfsr = reg,
                                !.tags[at] = Shr(addr, c.idx_shift) \cup VALID],
                victim |-> c.tags[at],
                victim_src |-> c.srcs[at],
                undef |-> FALSE]

\* victimize gone wrong: the victim is way 0 of the set, whatever the LFSR
\* says.
victimize_way_zero(c, addr, src) ==
    LET at == set_index(c, addr) * c.ways
    IN [c |-> [c EXCEPT !.lfsr = lfsr_next(c.lfsr),
                        !.tags[at] = Shr(addr, c.idx_shift) \cup VALID,
                        !.srcs[at] = src],
        victim |-> c.tags[at],
        victim_src |-> c.srcs[at],
        undef |-> FALSE]

\* cache_sim_t::victimize.  fa_cache_sim_t::victimize(uint64_t) has another
\* parameter list, so it does not override this one: access calls this
\* function on both classes.  The result is the object after the call with
\* the two values the call hands back.  With ways = 0 the division of
\* lfsr.next() % ways is undefined (undef): if the process survives it, the
\* slot is one outside the empty arrays, read here as zero and its write lost.
victimize(c, addr, src) ==
    LET idx == set_index(c, addr)
        reg == lfsr_next(c.lfsr)
    IN IF c.ways = 0
       THEN [c |-> [c EXCEPT !.lfsr = reg], victim |-> {}, victim_src |-> {},
             undef |-> TRUE]
       ELSE LET way == WordMod(reg, c.ways)
                at == idx * c.ways + way
            IN [c |-> [c EXCEPT !.lfsr = reg,
                                !.tags[at] = Shr(addr, c.idx_shift) \cup VALID,
                                !.srcs[at] = src],
                victim |-> c.tags[at],
                victim_src |-> c.srcs[at],
                undef |-> FALSE]

\* count_access gone wrong: the byte counters count accesses, not bytes.
count_access_one_byte(c, bytes, store) ==
    IF store
    THEN [c EXCEPT !.write_accesses = @ + 1, !.bytes_written = @ + 1]
    ELSE [c EXCEPT !.read_accesses = @ + 1, !.bytes_read = @ + 1]

\* store ? write_accesses++ : read_accesses++;
\* (store ? bytes_written : bytes_read) += bytes;
count_access(c, bytes, store) ==
    IF store
    THEN [c EXCEPT !.write_accesses = @ + 1, !.bytes_written = @ + bytes]
    ELSE [c EXCEPT !.read_accesses = @ + 1, !.bytes_read = @ + bytes]

\* count_miss gone wrong: a miss is counted as a read and as a write miss.
count_miss_both(c, store) ==
    [c EXCEPT !.write_misses = @ + 1, !.read_misses = @ + 1]

\* store ? write_misses++ : read_misses++;
count_miss(c, store) ==
    IF store THEN [c EXCEPT !.write_misses = @ + 1]
             ELSE [c EXCEPT !.read_misses = @ + 1]

\* (victim & (VALID | DIRTY)) == (VALID | DIRTY)
victim_is_dirty(victim) == (victim \cap (VALID \cup DIRTY)) = (VALID \cup DIRTY)

\* F of the value of v: a statement's result, computed once and then used.
Then(v, F(_)) == CHOOSE r \in {F(x) : x \in {v}} : TRUE

\* if(trace_miss) cache_miss_callback(vaddr & ~(linesz-1), paddr & ~(linesz-1),
\*                                    linesz, store);
\* The call is logged with the value of the function pointer; calling a null
\* pointer is undefined.
call_miss_callback(s, lv, vaddr, paddr, store, ub) ==
    LET c == s.obj[lv]
    IN IF ~c.trace_miss THEN s
       ELSE [s EXCEPT
               !.log = Append(@, Ev("callback", lv, s.cb,
                                    line_align(vaddr, c.linesz),
                                    line_align(paddr, c.linesz),
                                    c.linesz, store, {})),
               !.cbs = @ + 1,
               !.crashed = (s.cb = "NULL" /\ ub = "crash")]

RECURSIVE access(_, _, _, _, _, _, _, _)

\* writeback gone wrong: writebacks++ is done only where there is a next
\* level.
writeback_only_downstream(s, lv, victim, victim_src, ub) ==
    LET c == s.obj[lv]
        dirty_addr == Shl(AndNot(victim, VALID \cup DIRTY), c.idx_shift)
    IN IF ~victim_is_dirty(victim) \/ c.miss_handler = "NULL" THEN s
       ELSE Then(access(s, lv, c.miss_handler, victim_src, dirty_addr,
                        c.linesz, TRUE, ub),
                 LAMBDA s1 : IF s1.crashed THEN s1
                             ELSE [s1 EXCEPT !.obj[lv].writebacks = @ + 1])

\* if ((victim & (VALID | DIRTY)) == (VALID | DIRTY)) { ... writebacks++; }
\* the writeback of a VALID and DIRTY victim into the next level
writeback(s, lv, victim, victim_src, ub) ==
    LET c == s.obj[lv]
        dirty_addr == Shl(AndNot(victim, VALID \cup DIRTY), c.idx_shift)
    IN IF ~victim_is_dirty(victim) THEN s
       ELSE Then(IF c.miss_handler # "NULL"
                 THEN access(s, lv, c.miss_handler, victim_src, dirty_addr,
                             c.linesz, TRUE, ub)
                 ELSE s,
                 LAMBDA s1 : IF s1.crashed THEN s1
                             ELSE [s1 EXCEPT !.obj[lv].writebacks = @ + 1])

\* refill gone wrong: the refill is passed on as a store.
refill_as_write(s, lv, vaddr, paddr, ub) ==
    LET c == s.obj[lv]
    IN IF c.miss_handler = "NULL" THEN s
       ELSE access(s, lv, c.miss_handler, line_align(vaddr, c.linesz),
                   line_align(paddr, c.linesz), c.linesz, TRUE, ub)

\* refill gone wrong: the missing line is never fetched from the next level.
refill_never(s, lv, vaddr, paddr, ub) == s

\* if (miss_handler) miss_handler->access(vaddr & ~(linesz-1),
\*                                        paddr & ~(linesz-1), linesz, false);
refill(s, lv, vaddr, paddr, ub) ==
    LET c == s.obj[lv]
    IN IF c.miss_handler = "NULL" THEN s
       ELSE access(s, lv, c.miss_handler, line_align(vaddr, c.linesz),
                   line_align(paddr, c.linesz), c.linesz, FALSE, ub)

\* miss_downstream gone wrong: the refill is issued before the writeback.
miss_downstream_refill_first(s, lv, vaddr, paddr, victim, victim_src, ub) ==
    Then(refill(s, lv, vaddr, paddr, ub),
         LAMBDA s1 : IF s1.crashed THEN s1
                     ELSE writeback(s1, lv, victim, victim_src, ub))

\* miss_downstream gone wrong: the missing line is fetched twice.
miss_downstream_refill_twice(s, lv, vaddr, paddr, victim, victim_src, ub) ==
    Then(writeback(s, lv, victim, victim_src, ub),
         LAMBDA s1 :
           IF s1.crashed THEN s1
           ELSE Then(refill(s1, lv, vaddr, paddr, ub),
                     LAMBDA s2 : IF s2.crashed THEN s2
                                 ELSE refill(s2, lv, vaddr, paddr, ub)))

\* The two calls into the next level after victimize, in the order of the
\* code: the writeback of the victim, then the refill of the missing line.
miss_downstream(s, lv, vaddr, paddr, victim, victim_src, ub) ==
    Then(writeback(s, lv, victim, victim_src, ub),
         LAMBDA s1 : IF s1.crashed THEN s1 ELSE refill(s1, lv, vaddr, paddr, ub))

\* The store after the refill gone wrong: DIRTY is set after the refill of
\* a load as well.
dirty_after_refill_always(s, lv, paddr, store, ub) ==
    IF s.crashed THEN s
    ELSE Then(check_tag(s.obj[lv], paddr),
              LAMBDA p : IF p = NullPtr
                         THEN [s EXCEPT !.crashed = (ub = "crash")]
                         ELSE [s EXCEPT !.obj[lv] = set_dirty(@, p)])

\* dirty_after_refill gone wrong: a store that misses leaves its line clean.
dirty_after_refill_never(s, lv, paddr, store, ub) == s

\* if (store) *check_tag(paddr) |= DIRTY;   after the refill.  Writing through
\* the null pointer check_tag may return is undefined.
dirty_after_refill(s, lv, paddr, store, ub) ==
    IF ~store \/ s.crashed THEN s
    ELSE Then(check_tag(s.obj[lv], paddr),
              LAMBDA p : IF p = NullPtr
                         THEN [s EXCEPT !.crashed = (ub = "crash")]
                         ELSE [s EXCEPT !.obj[lv] = set_dirty(@, p)])

\* The miss path of access, from victimize on.
replace_line(s, lv, vaddr, paddr, store, ub) ==
    Then(victimize(count_miss(s.obj[lv], store), paddr,
                   line_align(vaddr, s.obj[lv].linesz)),
         LAMBDA v :
           Then([s EXCEPT !.obj[lv] = v.c,
                          !.log = Append(@, Ev("victimize", lv, lv,
                                               v.victim_src, paddr,
                                               v.c.linesz, store, v.victim)),
                          !.crashed = (v.undef /\ ub = "crash")],
                LAMBDA s3 :
                  IF s3.crashed THEN s3
                  ELSE Then(miss_downstream(s3, lv, vaddr, paddr, v.victim,
                                            v.victim_src, ub),
                            LAMBDA s4 :
                              dirty_after_refill(s4, lv, paddr, store, ub))))

\* The hit path gone wrong: DIRTY is set on every hit, LOADs included.
hit_always_dirty(s, lv, hit_way, store) ==
    [s EXCEPT !.obj[lv] = set_dirty(@, hit_way)]

\* The hit path of access: if (store) *hit_way |= DIRTY; return;
hit(s, lv, hit_way, store) ==
    IF store THEN [s EXCEPT !.obj[lv] = set_dirty(@, hit_way)] ELSE s

\* cache_sim_t::access, called by from (a level, or "tracer").
access(s, from, lv, vaddr, paddr, bytes, store, ub) ==
    Then([s EXCEPT !.obj[lv] = count_access(@, bytes, store),
                   !.log = Append(@, Ev("access", lv, from, vaddr, paddr,
                                        bytes, store, {}))],
         LAMBDA s1 :
           Then(check_tag(s1.obj[lv], paddr),
                LAMBDA hit_way :
                  IF hit_way # NullPtr THEN hit(s1, lv, hit_way, store)
                  ELSE Then(call_miss_callback(s1, lv, vaddr, paddr, store, ub),
                            LAMBDA s2 :
                              IF s2.crashed THEN s2
                              ELSE replace_line(s2, lv, vaddr, paddr, store, ub))))

(***************************************************************************)
(* The tracers (cachesim.h) and the tracer list.                           *)
(***************************************************************************)
AccessTypes == {"LOAD", "STORE", "FETCH"}

\* icache_sim_t::trace gone wrong: the type of the access is not looked at.
icache_sim_trace_any(s, lv, vaddr, paddr, bytes, type, ub) ==
    access(s, "tracer", lv, vaddr, paddr, bytes, type = "STORE", ub)

\* icache_sim_t::trace
icache_sim_trace(s, lv, vaddr, paddr, bytes, type, ub) ==
    IF type = "FETCH"
    THEN access(s, "tracer", lv, vaddr, paddr, bytes, FALSE, ub)
    ELSE s

\* dcache_sim_trace gone wrong: the type of the access is not looked at.
dcache_sim_trace_any(s, lv, vaddr, paddr, bytes, type, ub) ==
    access(s, "tracer", lv, vaddr, paddr, bytes, type = "STORE", ub)

\* dcache_sim_t::trace
dcache_sim_trace(s, lv, vaddr, paddr, bytes, type, ub) ==
    IF type = "LOAD" \/ type = "STORE"
    THEN access(s, "tracer", lv, vaddr, paddr, bytes, type = "STORE", ub)
    ELSE s

\* The virtual call it->trace(...) on a registered tracer.  A registered null
\* pointer makes the call undefined.
tracer_trace(s, t, vaddr, paddr, bytes, type, ub) ==
    IF t = "NULL"
    THEN (IF ub = "crash" THEN [s EXCEPT !.crashed = TRUE] ELSE s)
    ELSE IF t = "I$" THEN icache_sim_trace(s, t, vaddr, paddr, bytes, type, ub)
    ELSE dcache_sim_trace(s, t, vaddr, paddr, bytes, type, ub)

\* memtracer_list_t::trace: every registered tracer, in the order of
\* registration.
RECURSIVE memtracer_list_trace(_, _, _, _, _, _, _, _)
memtracer_list_trace(s, list, i, vaddr, paddr, bytes, type, ub) ==
    IF i > Len(list) \/ s.crashed THEN s
    ELSE memtracer_list_trace(
            tracer_trace(s, list[i], vaddr, paddr, bytes, type, ub),
            list, i + 1, vaddr, paddr, bytes, type, ub)

(***************************************************************************)
(* The inputs of the model.                                                *)
(***************************************************************************)
\* Configuration strings "sets:ways:linesz": a direct-mapped one-set level,
\* a fully-associative one (sets = 1, ways > 4), a two-way level with a
\* longer line, one without ways, and strings with no or one ':', with
\* sets zero or not a power of two, and with a linesz below 8 or not a power
\* of two (for either class).
CfgStrings ==
    { <<"1", ":", "1", ":", "8">>,
      <<"1", ":", "5", ":", "8">>,
      <<"2", ":", "2", ":", "1", "6">>,
      <<"1", ":", "0", ":", "8">>,
      <<"8">>,
      <<"1", ":", "1">>,
      <<"0", ":", "1", ":", "8">>,
      <<"3", ":", "1", ":", "8">>,
      <<"1", ":", "1", ":", "4">>,
      <<"1", ":", "1", ":", "1", "2">>,
      <<"1", ":", "5", ":", "4">>,
      <<"1", ":", "5", ":", "1", "2">> }

\* The (vaddr, paddr, bytes) of an ingested access: line 0 with no virtual
\* address, an unaligned address of the same line, and an address 0x40 that
\* falls into the same set as line 0 in every configuration above.
AccessArgs ==
    { [vaddr |-> W(0), paddr |-> W(0), bytes |-> 1],
      [vaddr |-> W(4101), paddr |-> W(5), bytes |-> 2],
      [vaddr |-> W(8256), paddr |-> W(64), bytes |-> 8] }

\* The argument of memtrace_set_region: a null pointer, "0:ff", or a string
\* without the ':'.
RegionArgs ==
    { [null |-> TRUE, str |-> <<>>],
      [null |-> FALSE, str |-> <<"0", ":", "f", "f">>],
      [null |-> FALSE, str |-> <<"f", "f">>] }

(***************************************************************************)
(* sscanf(buf, "%lx", &x) of memtrace_set_region.                          *)
(***************************************************************************)
isxdigit(c) == isdigit(c) \/ c \in {"a", "b", "c", "d", "e", "f"}
xdigit(c) == CASE isdigit(c) -> digit(c)
               [] c = "a" -> 10 [] c = "b" -> 11 [] c = "c" -> 12
               [] c = "d" -> 13 [] c = "e" -> 14 [] c = "f" -> 15
RECURSIVE scan_hex_from(_, _, _)
scan_hex_from(s, i, acc) == IF i > Len(s) \/ ~isxdigit(s[i]) THEN acc
                            ELSE scan_hex_from(s, i + 1, acc * 16 + xdigit(s[i]))
scan_hex(s) == W(scan_hex_from(s, 1, 0))

(***************************************************************************)
(* The state of the program.                                               *)
(***************************************************************************)
VARIABLES
    pc,                     \* "config", "run", "destroyed", "exited", "crashed"
    cachesim_enable,        \* bool cachesim_enable
    cache_l1i, cache_l1d,   \* the four global pointers: "NULL" or the object
    cache_l2, cache_l3,
    cache_miss_callback,    \* "NULL" or "cache_miss_trace"
    memtrace_region_start,  \* uint64_t memtrace_region_start
    memtrace_region_end,    \* uint64_t memtrace_region_end
    tracer,                 \* static memtracer_list_t tracer
    obj,                    \* the live cache objects, by name
    out,                    \* what was written to cachesim_file
    err,                    \* what was written to stderr
    log,                    \* the calls made during the last ingest
    cbs,                    \* the number of calls of the miss callback so far
    hist,                   \* the ingests so far
    cfgs,                   \* the init_cache_l1/l2/l3 calls so far
    trail                   \* the calls made during all the ingests so far,
                            \* and the deletes of cachesim_destroy
VARIABLES
    memtrace_is_started,    \* bool memtrace_is_started
    memtrace_enable,        \* bool memtrace_enable
    memtrace_file,          \* FILE* memtrace_file: "NULL" or "FILE"
    memtrace_out,           \* what was written to memtrace_file
    mt                      \* the calls of memtrace so far

vars == <<pc, cachesim_enable, cache_l1i, cache_l1d, cache_l2, cache_l3,
          cache_miss_callback, memtrace_region_start, memtrace_region_end,
          tracer, obj, out, err, log, cbs, hist, cfgs, trail,
          memtrace_is_started, memtrace_enable, memtrace_file, memtrace_out,
          mt>>

\* The globals of memtrace.c that the calls of cachesim.cpp leave alone.
host == <<memtrace_is_started, memtrace_enable, memtrace_file, mt>>

\* uint64_t memtrace_region_end = (uint64_t)-1
AllOnes == 0..(WordBits - 1)

Init ==
    /\ pc = "config"
    /\ cachesim_enable = FALSE
    /\ cache_l1i = "NULL" /\ cache_l1d = "NULL"
    /\ cache_l2 = "NULL" /\ cache_l3 = "NULL"
    /\ cache_miss_callback = "NULL"
    /\ memtrace_region_start = {}
    /\ memtrace_region_end = AllOnes
    /\ tracer = <<>>
    /\ obj = <<>>
    /\ out = <<>>
    /\ err = <<>>
    /\ log = <<>>
    /\ cbs = 0
    /\ hist = <<>>
    /\ cfgs = <<>>
    /\ trail = <<>>
    /\ memtrace_is_started = FALSE
    /\ memtrace_enable = FALSE
    /\ memtrace_file = "NULL"
    /\ memtrace_out = <<>>
    /\ mt = <<>>

(***************************************************************************)
(* The lifecycle calls (cachesim.cpp, memtrace.c).  The host makes them    *)
(* while it reads its options (pc = "config"), each level at most once,    *)
(* in any order; init_cachesim ends the configuration.                     *)
(***************************************************************************)
Usage == "Cache configurations must be of the form sets:ways:blocksize"

\* help(): the usage message on stderr, then exit(1)
help ==
    /\ err' = Append(err, Usage)
    /\ pc' = "exited"

\* void init_cache_l1(const char* optstr)
init_cache_l1(optstr) ==
    /\ pc = "config"
    /\ cache_l1i = "NULL" /\ cache_l1d = "NULL"
    /\ cfgs' = Append(cfgs, [fn |-> "init_cache_l1", optstr |-> optstr])
    /\ LET i == construct(optstr, "I$")
           d == construct(optstr, "D$")
       IN IF ~i.ok \/ ~d.ok
          THEN /\ help
               /\ UNCHANGED <<cache_l1i, cache_l1d, obj>>
          ELSE /\ cache_l1i' = "I$"
               /\ cache_l1d' = "D$"
               /\ obj' = ("I$" :> i.obj) @@ ("D$" :> d.obj) @@ obj
               /\ UNCHANGED <<pc, err>>
    /\ UNCHANGED host
    /\ UNCHANGED <<memtrace_out, cachesim_enable, cache_l2, cache_l3,
                   cache_miss_callback, memtrace_region_start,
                   memtrace_region_end, tracer, out, log, cbs, hist, trail>>

\* void init_cache_l2(const char* optstr)
init_cache_l2(optstr) ==
    /\ pc = "config"
    /\ cache_l2 = "NULL"
    /\ cfgs' = Append(cfgs, [fn |-> "init_cache_l2", optstr |-> optstr])
    /\ IF cache_l1i # "NULL" /\ cache_l1d # "NULL"
       THEN LET c == construct(optstr, "L2$")
            IN IF ~c.ok
               THEN /\ help
                    /\ UNCHANGED <<cache_l2, obj>>
               ELSE /\ cache_l2' = "L2$"
                    /\ obj' = ("L2$" :> c.obj) @@
                              [n \in DOMAIN obj |->
                                 IF n \in {cache_l1i, cache_l1d}
                                 THEN [obj[n] EXCEPT !.miss_handler = "L2$"]
                                 ELSE obj[n]]
                    /\ UNCHANGED <<pc, err>>
       ELSE /\ err' = Append(err, "Cannot define L2 without L1 cache")
            /\ pc' = "exited"
            /\ UNCHANGED <<cache_l2, obj>>
    /\ UNCHANGED host
    /\ UNCHANGED <<memtrace_out, cachesim_enable, cache_l1i, cache_l1d,
                   cache_l3, cache_miss_callback, memtrace_region_start,
                   memtrace_region_end, tracer, out, log, cbs, hist, trail>>

\* init_cache_l3 gone wrong: the level is constructed and kept whether or not
\* there is an L2.
init_cache_l3_unchecked(optstr) ==
    /\ pc = "config"
    /\ cache_l3 = "NULL"
    /\ cfgs' = Append(cfgs, [fn |-> "init_cache_l3", optstr |-> optstr])
    /\ LET c == construct(optstr, "L3$")
       IN IF ~c.ok
          THEN /\ help
               /\ UNCHANGED <<cache_l3, obj>>
          ELSE /\ cache_l3' = "L3$"
               /\ obj' = ("L3$" :> c.obj) @@
                         [n \in DOMAIN obj |->
                            IF n = cache_l2
                            THEN [obj[n] EXCEPT !.miss_handler = "L3$"]
                            ELSE obj[n]]
               /\ UNCHANGED <<pc, err>>
    /\ UNCHANGED host
    /\ UNCHANGED <<memtrace_out, cachesim_enable, cache_l1i, cache_l1d,
                   cache_l2, cache_miss_callback, memtrace_region_start,
                   memtrace_region_end, tracer, out, log, cbs, hist, trail>>

\* void init_cache_l3(const char* optstr): constructs the level once before
\* it looks at cache_l2 and once more after.
init_cache_l3(optstr) ==
    /\ pc = "config"
    /\ cache_l3 = "NULL"
    /\ cfgs' = Append(cfgs, [fn |-> "init_cache_l3", optstr |-> optstr])
    /\ LET c == construct(optstr, "L3$")
       IN IF ~c.ok
          THEN /\ help
               /\ UNCHANGED <<cache_l3, obj>>
          ELSE IF cache_l2 # "NULL"
          THEN /\ cache_l3' = "L3$"
               /\ obj' = ("L3$" :> c.obj) @@
                         [n \in DOMAIN obj |->
                            IF n = cache_l2
                            THEN [obj[n] EXCEPT !.miss_handler = "L3$"]
                            ELSE obj[n]]
               /\ UNCHANGED <<pc, err>>
          ELSE /\ cache_l3' = "L3$"
               /\ obj' = ("L3$" :> c.obj) @@ obj
               /\ err' = Append(err, "Cannot define L3 without L2 cache")
               /\ pc' = "exited"
    /\ UNCHANGED host
    /\ UNCHANGED <<memtrace_out, cachesim_enable, cache_l1i, cache_l1d,
                   cache_l2, cache_miss_callback, memtrace_region_start,
                   memtrace_region_end, tracer, out, log, cbs, hist, trail>>

\* void memtrace_set_region(const char* region).  strncpy leaves start
\* without its terminating zero, so sscanf reads on into bytes of the stack
\* that were never written: tail is what it finds there.
memtrace_set_region(region, tail) ==
    /\ pc = "config"
    /\ cache_miss_callback = "NULL"
    /\ IF region.null
       THEN UNCHANGED <<pc, err, cache_miss_callback, memtrace_region_start,
                        memtrace_region_end>>
       ELSE LET idx == strchr(region.str, 1, ":")
            IN IF idx = 0
               THEN /\ err' = Append(err, "Usage: -memtrace <start>:<end>")
                    /\ pc' = "exited"
                    /\ UNCHANGED <<cache_miss_callback, memtrace_region_start,
                                   memtrace_region_end>>
               ELSE /\ memtrace_region_start' =
                          scan_hex(SubSeq(region.str, 1, idx - 1) \o tail)
                    /\ memtrace_region_end' =
                          scan_hex(SubSeq(region.str, idx + 1, Len(region.str)))
                    /\ err' = err \o <<"region_start", "region_end">>
                    /\ cache_miss_callback' = "cache_miss_trace"
                    /\ UNCHANGED pc
    /\ UNCHANGED host
    /\ UNCHANGED <<memtrace_out, cachesim_enable, cache_l1i, cache_l1d,
                   cache_l2, cache_l3, tracer, obj, out, log, cbs, hist, cfgs,
                   trail>>

\* The bytes sscanf may find after the copied characters.
StackTails == {<<>>, <<"a">>}

\* enable_trace_miss gone wrong: every level traces its misses.
enable_trace_miss_all(o, on) ==
    [n \in DOMAIN o |-> [o[n] EXCEPT !.trace_miss = TRUE]]

\* enable_trace_miss() on the levels in on
enable_trace_miss(o, on) ==
    [n \in DOMAIN o |-> IF n \in on THEN [o[n] EXCEPT !.trace_miss = TRUE]
                                    ELSE o[n]]

\* void init_cachesim(const char* filename)
init_cachesim ==
    /\ pc = "config"
    /\ cachesim_enable' = TRUE
    /\ tracer' = tracer \o <<cache_l1i, cache_l1d>>
    /\ IF cache_l3 # "NULL"
       THEN /\ out' = Append(out, "L3 misses will be traced")
            /\ obj' = enable_trace_miss(obj, {cache_l3})
       ELSE IF cache_l2 # "NULL"
       THEN /\ out' = Append(out, "L2 misses will be traced")
            /\ obj' = enable_trace_miss(obj, {cache_l2})
       ELSE IF cache_l1i # "NULL" /\ cache_l1d # "NULL"
       THEN /\ out' = Append(out, "L1 misses will be traced")
            /\ obj' = enable_trace_miss(obj, {cache_l1i, cache_l1d})
       ELSE UNCHANGED <<out, obj>>
    /\ pc' = "run"
    /\ UNCHANGED host
    /\ UNCHANGED <<memtrace_out, cache_l1i, cache_l1d, cache_l2, cache_l3,
                   cache_miss_callback, memtrace_region_start,
                   memtrace_region_end, err, log, cbs, hist, cfgs, trail>>

(***************************************************************************)
(* The trace file (memtrace.c).                                            *)
(***************************************************************************)
\* a < b on unsigned 64-bit words
WordLess(a, b) ==
    \E i \in b \ a : \A j \in (i + 1)..(WordBits - 1) : j \in a <=> j \in b

\* log_filtered_trace: the file o after the call.  A line is "S" or "L",
\* paddr, size and, if vaddr is not 0, "=> vaddr".
log_filtered_trace(o, vaddr, paddr, size, is_store) ==
    IF ~memtrace_enable \/ memtrace_file = "NULL" THEN o
    ELSE IF WordLess(paddr, memtrace_region_start)
            \/ ~WordLess(paddr, memtrace_region_end) THEN o
    ELSE Append(o, [op |-> IF is_store THEN "S" ELSE "L", paddr |-> paddr,
                    size |-> size, arrow |-> vaddr # {}, vaddr |-> vaddr])

\* cache_miss_trace, the callback memtrace_set_region installs, for the
\* calls of the callback logged in lg from entry i on.
RECURSIVE callback_lines(_, _, _)
callback_lines(o, lg, i) ==
    IF i > Len(lg) THEN o
    ELSE IF lg[i].ev = "callback" /\ lg[i].from = "cache_miss_trace"
    THEN callback_lines(log_filtered_trace(o, lg[i].vaddr, lg[i].paddr,
                                           lg[i].size, lg[i].store),
                        lg, i + 1)
    ELSE callback_lines(o, lg, i + 1)

(***************************************************************************)
(* The ingestion calls (cachesim.cpp).  memtrace() makes them only while   *)
(* cachesim_enable is set.                                                 *)
(***************************************************************************)
\* tracer.trace(vaddr, paddr, bytes, type).  The two outcomes of undefined
\* behaviour differ only for an ingest that runs into it.
ingest(type, a) ==
    /\ pc = "run"
    /\ cachesim_enable
    /\ LET s0 == [obj |-> obj, log |-> <<>>, cbs |-> cbs, crashed |-> FALSE,
                  cb |-> cache_miss_callback]
           run(ub) == memtracer_list_trace(s0, tracer, 1, a.vaddr, a.paddr,
                                           a.bytes, type, ub)
       IN \E sc \in {run("crash")} :
          \E s \in (IF sc.crashed THEN {sc, run("continue")} ELSE {sc}) :
            /\ obj' = s.obj
            /\ log' = s.log
            /\ trail' = trail \o s.log
            /\ cbs' = s.cbs
            /\ pc' = IF s.crashed THEN "crashed" ELSE "run"
            /\ memtrace_out' = callback_lines(memtrace_out, s.log, 1)
    /\ hist' = Append(hist, [type |-> type, vaddr |-> a.vaddr,
                             paddr |-> a.paddr, bytes |-> a.bytes])
    /\ UNCHANGED host
    /\ UNCHANGED <<cachesim_enable, cache_l1i, cache_l1d, cache_l2, cache_l3,
                   cache_miss_callback, memtrace_region_start,
                   memtrace_region_end, tracer, out, err, cfgs>>

\* void cachesim_ld(uint64_t vaddr, uint64_t paddr, size_t bytes)
cachesim_ld == Len(hist) < MaxIngest /\ \E a \in AccessArgs : ingest("LOAD", a)
\* void cachesim_st(uint64_t vaddr, uint64_t paddr, size_t bytes)
cachesim_st == Len(hist) < MaxIngest /\ \E a \in AccessArgs : ingest("STORE", a)
\* void cachesim_fc(uint64_t vaddr, uint64_t paddr, size_t bytes)
cachesim_fc == Len(hist) < MaxIngest /\ \E a \in AccessArgs : ingest("FETCH", a)

(***************************************************************************)
(* Teardown (cachesim.cpp).                                                *)
(***************************************************************************)
\* The block of counters print_stats writes.
stats_block(c) ==
    [name |-> c.name,
     bytes_read |-> c.bytes_read, bytes_written |-> c.bytes_written,
     read_accesses |-> c.read_accesses,
     write_accesses |-> c.write_accesses,
     read_misses |-> c.read_misses, write_misses |-> c.write_misses,
     writebacks |-> c.writebacks,
     mr_num |-> 100 * (c.read_misses + c.write_misses),
     mr_den |-> c.read_accesses + c.write_accesses]

\* print_stats gone wrong: the test for a level without accesses is missing.
print_stats_always(c) == <<stats_block(c)>>

\* cache_sim_t::print_stats: nothing for a level without accesses, else the
\* block of counters; the miss rate is kept as the quotient it is computed
\* from.
print_stats(c) ==
    IF c.read_accesses + c.write_accesses = 0 THEN <<>>
    ELSE <<stats_block(c)>>

\* The delete expressions of cachesim_destroy, as entries of the trail.
deletes(order) ==
    [i \in 1..Len(order) |->
       Ev("delete", order[i], "cachesim_destroy", {}, {}, 0, FALSE, {})]

\* cachesim_destroy gone wrong: the L2 is deleted before the L1s.
cachesim_destroy_l2_first ==
    /\ pc = "run"
    /\ LET l1 == IF cache_l1i # "NULL" /\ cache_l1d # "NULL"
                 THEN <<cache_l1i, cache_l1d>> ELSE <<>>
           l2 == IF cache_l2 # "NULL" THEN <<cache_l2>> ELSE <<>>
           l3 == IF cache_l3 # "NULL" THEN <<cache_l3>> ELSE <<>>
           order == l2 \o l1 \o l3
           deleted == {order[i] : i \in 1..Len(order)}
           RECURSIVE blocks(_)
           blocks(i) == IF i > Len(order) THEN <<>>
                        ELSE print_stats(obj[order[i]]) \o blocks(i + 1)
       IN /\ out' = out \o blocks(1)
          /\ obj' = [n \in DOMAIN obj \ deleted |-> obj[n]]
          /\ trail' = trail \o deletes(order)
    /\ pc' = "destroyed"
    /\ UNCHANGED host
    /\ UNCHANGED <<memtrace_out, cachesim_enable, cache_l1i, cache_l1d,
                   cache_l2, cache_l3, cache_miss_callback,
                   memtrace_region_start, memtrace_region_end, tracer, err,
                   log, cbs, hist, cfgs>>

\* void cachesim_destroy(): the destructors print the statistics.
cachesim_destroy ==
    /\ pc = "run"
    /\ LET l1 == IF cache_l1i # "NULL" /\ cache_l1d # "NULL"
                 THEN <<cache_l1i, cache_l1d>> ELSE <<>>
           l2 == IF cache_l2 # "NULL" THEN <<cache_l2>> ELSE <<>>
           l3 == IF cache_l3 # "NULL" THEN <<cache_l3>> ELSE <<>>
           order == l1 \o l2 \o l3
           deleted == {order[i] : i \in 1..Len(order)}
           RECURSIVE blocks(_)
           blocks(i) == IF i > Len(order) THEN <<>>
                        ELSE print_stats(obj[order[i]]) \o blocks(i + 1)
       IN /\ out' = out \o blocks(1)
          /\ obj' = [n \in DOMAIN obj \ deleted |-> obj[n]]
          /\ trail' = trail \o deletes(order)
    /\ pc' = "destroyed"
    /\ UNCHANGED host
    /\ UNCHANGED <<memtrace_out, cachesim_enable, cache_l1i, cache_l1d,
                   cache_l2, cache_l3, cache_miss_callback,
                   memtrace_region_start, memtrace_region_end, tracer, err,
                   log, cbs, hist, cfgs>>

Next ==
    \/ \E optstr \in CfgStrings : init_cache_l1(optstr)
    \/ \E optstr \in CfgStrings : init_cache_l2(optstr)
    \/ \E optstr \in CfgStrings : init_cache_l3(optstr)
    \/ \E region \in RegionArgs, tail \in StackTails :
          memtrace_set_region(region, tail)
    \/ init_cachesim
    \/ cachesim_ld
    \/ cachesim_st
    \/ cachesim_fc
    \/ cachesim_destroy

Spec == Init /\ [][Next]_vars

(***************************************************************************)
(* Runs on the L1 caches alone, with longer traces of loads and stores:    *)
(* the same calls with other arguments.                                    *)
(***************************************************************************)
\* One set of one way, two sets of one way, two sets of two ways.
TraceCfgStrings ==
    { <<"1", ":", "1", ":", "8">>,
      <<"2", ":", "1", ":", "8">>,
      <<"2", ":", "2", ":", "1", "6">> }

\* Lines 0x0, 0x8 and 0x40: with lines of 8 bytes 0x0 and 0x40 fall into one
\* set, and 0x8 into another when there are two.
TraceArgs ==
    { [vaddr |-> W(0), paddr |-> W(0), bytes |-> 1],
      [vaddr |-> W(4104), paddr |-> W(8), bytes |-> 1],
      [vaddr |-> W(8256), paddr |-> W(64), bytes |-> 8] }

init_cache_l1_trace == \E optstr \in TraceCfgStrings : init_cache_l1(optstr)
cachesim_ld_trace == Len(hist) < MaxTrace /\ \E a \in TraceArgs : ingest("LOAD", a)
cachesim_st_trace == Len(hist) < MaxTrace /\ \E a \in TraceArgs : ingest("STORE", a)

NextTrace ==
    \/ init_cache_l1_trace
    \/ \E region \in RegionArgs, tail \in StackTails :
          memtrace_set_region(region, tail)
    \/ init_cachesim
    \/ cachesim_ld_trace
    \/ cachesim_st_trace
    \/ cachesim_destroy

SpecTrace == Init /\ [][NextTrace]_vars

(***************************************************************************)
(* Calls made after cachesim_destroy.  cachesim_destroy leaves the four    *)
(* pointers, the tracer list and cachesim_enable as they were, so the same *)
(* functions then work on objects that have been deleted: behaviour is     *)
(* undefined, and the process either dies or goes on (the memory of the    *)
(* deleted objects is not followed any further).                           *)
(***************************************************************************)
\* tracer.trace(...) after cachesim_destroy: the call access would get on
\* the tracer the type is for, if the process goes on.
trace_destroyed(type, a) ==
    LET t == IF type = "FETCH" THEN tracer[1] ELSE tracer[2]
    IN IF t = "NULL" THEN <<>>
       ELSE <<Ev("access", t, "tracer", a.vaddr, a.paddr, a.bytes,
                 type = "STORE", {})>>

ingest_destroyed(type, a) ==
    /\ pc = "destroyed"
    /\ cachesim_enable
    /\ \E ub \in UBOutcomes :
          IF ub = "crash"
          THEN pc' = "crashed" /\ log' = <<>> /\ trail' = trail
          ELSE /\ pc' = "destroyed"
               /\ log' = trace_destroyed(type, a)
               /\ trail' = trail \o trace_destroyed(type, a)
    /\ hist' = Append(hist, [type |-> type, vaddr |-> a.vaddr,
                             paddr |-> a.paddr, bytes |-> a.bytes])
    /\ UNCHANGED host
    /\ UNCHANGED <<memtrace_out, cachesim_enable, cache_l1i, cache_l1d,
                   cache_l2, cache_l3, cache_miss_callback,
                   memtrace_region_start, memtrace_region_end, tracer, obj,
                   out, err, cbs, cfgs>>

cachesim_ld_destroyed ==
    Len(hist) < MaxIngest /\ \E a \in AccessArgs : ingest_destroyed("LOAD", a)
cachesim_st_destroyed ==
    Len(hist) < MaxIngest /\ \E a \in AccessArgs : ingest_destroyed("STORE", a)
cachesim_fc_destroyed ==
    Len(hist) < MaxIngest /\ \E a \in AccessArgs : ingest_destroyed("FETCH", a)

\* The number of delete expressions executed on level lv so far.
DeletesOf(lv) ==
    Cardinality({i \in DOMAIN trail :
                    trail[i].ev = "delete" /\ trail[i].lv = lv})

\* cachesim_destroy called again: the pointers still hold the addresses of
\* the deleted objects, so each is deleted once more.
cachesim_destroy_twice ==
    /\ pc = "destroyed"
    /\ LET l1 == IF cache_l1i # "NULL" /\ cache_l1d # "NULL"
                 THEN <<cache_l1i, cache_l1d>> ELSE <<>>
           l2 == IF cache_l2 # "NULL" THEN <<cache_l2>> ELSE <<>>
           l3 == IF cache_l3 # "NULL" THEN <<cache_l3>> ELSE <<>>
           order == l1 \o l2 \o l3
       IN /\ \A i \in 1..Len(order) : DeletesOf(order[i]) < MaxDestroy
          /\ order # <<>>
          /\ trail' = trail \o deletes(order)
          /\ \E ub \in UBOutcomes :
                pc' = IF ub = "crash" THEN "crashed" ELSE "destroyed"
    /\ UNCHANGED host
    /\ UNCHANGED <<memtrace_out, cachesim_enable, cache_l1i, cache_l1d,
                   cache_l2, cache_l3, cache_miss_callback,
                   memtrace_region_start, memtrace_region_end, tracer, obj,
                   out, err, log, cbs, hist, cfgs>>

NextDestroyed ==
    \/ Next
    \/ cachesim_ld_destroyed
    \/ cachesim_st_destroyed
    \/ cachesim_fc_destroyed
    \/ cachesim_destroy_twice

SpecDestroyed == Init /\ [][NextDestroyed]_vars

(***************************************************************************)
(* The host tracer (memtrace.c).  The TCG helpers call memtrace for every  *)
(* guest access; the host sets memtrace_is_started, memtrace_enable and    *)
(* memtrace_file (memtrace.h declares them extern) whenever it likes.      *)
(***************************************************************************)
\* cpu_get_phys_page_debug(cs, page): the guest's page table, which maps the
\* pages used here to physical page 0 (as in AccessArgs).
cpu_get_phys_page_debug(page) == {}

\* memtrace gone wrong: the return after the switch is missing, so an access
\* handed to the cache simulator is logged as well.
RECURSIVE memtrace_fallthrough(_, _, _, _, _)
memtrace_fallthrough(s, vaddr, size, type, ub) ==
    IF ~memtrace_is_started \/ s.crashed THEN s
    ELSE IF (W(size - 1) \cap vaddr) # {}
            /\ Val(vaddr \cap W(4095)) + size >= 4096
    THEN memtrace_fallthrough(
            memtrace_fallthrough(s, vaddr, size \div 2, type, ub),
            W(Val(vaddr) + size \div 2), size \div 2, type, ub)
    ELSE LET paddr == cpu_get_phys_page_debug(AndNot(vaddr, W(4095)))
                         \cup (vaddr \cap W(4095))
             call == [vaddr |-> vaddr, paddr |-> paddr, size |-> size,
                      is_store |-> (type = "STORE")]
         IN IF cachesim_enable
            THEN Then(memtracer_list_trace(
                        [s EXCEPT !.ing = Append(@, [type |-> type,
                                                     vaddr |-> vaddr,
                                                     paddr |-> paddr,
                                                     bytes |-> size])],
                        tracer, 1, vaddr, paddr, size, type, ub),
                      LAMBDA s1 : [s1 EXCEPT !.direct = Append(@, call)])
            ELSE [s EXCEPT !.direct = Append(@, call)]

\* static void memtrace(env, vaddr, size, type).  ing collects the calls of
\* cachesim_ld / cachesim_st / cachesim_fc and direct those of
\* log_filtered_trace made at line 117.
RECURSIVE memtrace(_, _, _, _, _)
memtrace(s, vaddr, size, type, ub) ==
    IF ~memtrace_is_started \/ s.crashed THEN s
    ELSE IF (W(size - 1) \cap vaddr) # {}
            /\ Val(vaddr \cap W(4095)) + size >= 4096
    THEN memtrace(memtrace(s, vaddr, size \div 2, type, ub),
                  W(Val(vaddr) + size \div 2), size \div 2, type, ub)
    ELSE LET paddr == cpu_get_phys_page_debug(AndNot(vaddr, W(4095)))
                         \cup (vaddr \cap W(4095))
         IN IF cachesim_enable
            THEN memtracer_list_trace(
                    [s EXCEPT !.ing = Append(@, [type |-> type,
                                                 vaddr |-> vaddr,
                                                 paddr |-> paddr,
                                                 bytes |-> size])],
                    tracer, 1, vaddr, paddr, size, type, ub)
            ELSE [s EXCEPT !.direct =
                    Append(@, [vaddr |-> vaddr, paddr |-> paddr,
                               size |-> size, is_store |-> (type = "STORE")])]

\* The lines the calls of log_filtered_trace in d, from entry i on, add to
\* the file o.
RECURSIVE direct_lines(_, _, _)
direct_lines(o, d, i) ==
    IF i > Len(d) THEN o
    ELSE direct_lines(log_filtered_trace(o, d[i].vaddr, d[i].paddr, d[i].size,
                                         d[i].is_store),
                      d, i + 1)

\* The guest accesses of the model: an aligned quadword, and four bytes
\* that cross the page boundary at 0x1000.
MemtraceArgs ==
    { [vaddr |-> W(8256), size |-> 8],
      [vaddr |-> W(4094), size |-> 4] }

\* helper_memtrace_ld / helper_memtrace_st / helper_memtrace_fc
helper_memtrace(type, a) ==
    /\ pc \in {"config", "run"}
    /\ LET s0 == [obj |-> obj, log |-> <<>>, cbs |-> cbs, crashed |-> FALSE,
                  cb |-> cache_miss_callback, ing |-> <<>>, direct |-> <<>>]
           run(ub) == memtrace(s0, a.vaddr, a.size, type, ub)
       IN \E sc \in {run("crash")} :
          \E s \in (IF sc.crashed THEN {sc, run("continue")} ELSE {sc}) :
            /\ obj' = s.obj
            /\ log' = s.log
            /\ trail' = trail \o s.log
            /\ cbs' = s.cbs
            /\ hist' = hist \o s.ing
            /\ pc' = IF s.crashed THEN "crashed" ELSE pc
            /\ memtrace_out' =
                  direct_lines(callback_lines(memtrace_out, s.log, 1),
                               s.direct, 1)
            /\ mt' = Append(mt, [type |-> type, vaddr |-> a.vaddr,
                                 size |-> a.size, direct |-> s.direct])
    /\ UNCHANGED <<cachesim_enable, cache_l1i, cache_l1d, cache_l2, cache_l3,
                   cache_miss_callback, memtrace_region_start,
                   memtrace_region_end, tracer, out, err, cfgs,
                   memtrace_is_started, memtrace_enable, memtrace_file>>

helper_memtrace_ld ==
    Len(mt) < MaxMemtrace /\ \E a \in MemtraceArgs : helper_memtrace("LOAD", a)
helper_memtrace_st ==
    Len(mt) < MaxMemtrace /\ \E a \in MemtraceArgs : helper_memtrace("STORE", a)
helper_memtrace_fc ==
    Len(mt) < MaxMemtrace /\ \E a \in MemtraceArgs : helper_memtrace("FETCH", a)

\* The host's assignments to memtrace_is_started (it starts and stops the
\* tracer) ...
host_set_started ==
    /\ pc \in {"config", "run"}
    /\ memtrace_is_started' = ~memtrace_is_started
    /\ UNCHANGED <<pc, cachesim_enable, cache_l1i, cache_l1d, cache_l2,
                   cache_l3, cache_miss_callback, memtrace_region_start,
                   memtrace_region_end, tracer, obj, out, err, log, cbs, hist,
                   cfgs, trail, memtrace_enable, memtrace_file, memtrace_out,
                   mt>>

\* ... and to memtrace_enable and memtrace_file (it opens the trace file
\* while it reads its options).
host_open_trace ==
    /\ pc = "config"
    /\ ~memtrace_enable /\ memtrace_file = "NULL"
    /\ \E enable \in BOOLEAN, file \in {"NULL", "FILE"} :
          /\ enable \/ file = "FILE"
          /\ memtrace_enable' = enable
          /\ memtrace_file' = file
    /\ UNCHANGED <<pc, cachesim_enable, cache_l1i, cache_l1d, cache_l2,
                   cache_l3, cache_miss_callback, memtrace_region_start,
                   memtrace_region_end, tracer, obj, out, err, log, cbs, hist,
                   cfgs, trail, memtrace_is_started, memtrace_out, mt>>

\* The configurations of the runs under the host tracer: one set of one way
\* with lines of 8 bytes, for L1 and for L2.
HostCfgStrings == { <<"1", ":", "1", ":", "8">> }

init_cache_l1_host == \E optstr \in HostCfgStrings : init_cache_l1(optstr)
init_cache_l2_host == \E optstr \in HostCfgStrings : init_cache_l2(optstr)
memtrace_set_region_host ==
    \E region \in RegionArgs : memtrace_set_region(region, <<>>)

NextHost ==
    \/ init_cache_l1_host
    \/ init_cache_l2_host
    \/ memtrace_set_region_host
    \/ init_cachesim
    \/ host_set_started
    \/ host_open_trace
    \/ helper_memtrace_ld
    \/ helper_memtrace_st
    \/ helper_memtrace_fc

SpecHost == Init /\ [][NextHost]_vars

(***************************************************************************)
(* Vocabulary of the properties.  Nothing below is used by the model.      *)
(***************************************************************************)
Levels == DOMAIN obj
Tag63 == {63}
Tag62 == {62}

\* The callback is installed: the run is one the host has set up fully.
CallbackInstalled == cache_miss_callback # "NULL"

\* The line number of an address at level c.
LineOf(c, addr) == {b - c.idx_shift : b \in {x \in addr : x >= c.idx_shift}}

\* addr is a multiple of linesz (a power of two).
Aligned(addr, linesz) == addr \cap W(linesz - 1) = {}

\* The number of ingests of a type, and the sum of their bytes.
RECURSIVE HistCount(_, _)
HistCount(i, type) ==
    IF i = 0 THEN 0
    ELSE HistCount(i - 1, type) + (IF hist[i].type = type THEN 1 ELSE 0)
RECURSIVE HistBytes(_, _)
HistBytes(i, type) ==
    IF i = 0 THEN 0
    ELSE HistBytes(i - 1, type) + (IF hist[i].type = type THEN hist[i].bytes ELSE 0)

\* The shape sets:ways:linesz of a level, and whether it is set-associative.
HasShape(lv, sets, ways, linesz) ==
    /\ lv \in Levels
    /\ obj[lv].sets = sets /\ obj[lv].ways = ways /\ obj[lv].linesz = linesz

\* The objects the call log speaks of are alive.
Alive == pc \in {"run", "crashed"}

\* Entries of the call log.
IsCall(e) == e.ev = "access" /\ e.from # "tracer"
IsWriteback(e) == IsCall(e) /\ e.store
IsRefill(e) == IsCall(e) /\ ~e.store
IsCallback(e) == e.ev = "callback"
\* Entry k is something level lv does or has done to it.
Concerns(k, lv) == log[k].lv = lv \/ (log[k].ev = "access" /\ log[k].from = lv)

(***************************************************************************)
(* C1.  Hit idempotence: after N >= 1 LOADs to addresses of one line and   *)
(* nothing else, L1D (whatever class construct gave it) has read_misses = 1*)
(* and read_accesses = N.                                                  *)
(***************************************************************************)
OnlyLoadsOfOneLine ==
    /\ pc = "run" /\ CallbackInstalled
    /\ "D$" \in Levels
    /\ hist # <<>>
    /\ \A i \in DOMAIN hist :
          /\ hist[i].type = "LOAD"
          /\ LineOf(obj["D$"], hist[i].paddr) = LineOf(obj["D$"], hist[1].paddr)

\* C1.  Whenever the ingests so far are N >= 1 LOADs of one line of L1D, L1D
\* has read_misses = 1 and read_accesses = N.
C1_HitIdempotence ==
    OnlyLoadsOfOneLine =>
        /\ obj["D$"].read_misses = 1
        /\ obj["D$"].read_accesses = Len(hist)

(***************************************************************************)
(* C2.  Writeback pairing and order: a store call of level L into its      *)
(* miss_handler is the first thing L does after a victimize of L that      *)
(* displaced a VALID and DIRTY tag; it carries L's linesz; and the next    *)
(* thing L does after it is the refill call (store = false, size linesz)   *)
(* into the same level.                                                    *)
(***************************************************************************)
C2_WritebackBeforeRefill ==
    \A i \in DOMAIN log :
       (Alive /\ IsWriteback(log[i])) =>
          LET L == log[i].from IN
          /\ log[i].lv = obj[L].miss_handler
          /\ log[i].size = obj[L].linesz
          /\ \E v \in 1..(i - 1) :
                /\ log[v].ev = "victimize" /\ log[v].lv = L
                /\ Tag63 \subseteq log[v].tag /\ Tag62 \subseteq log[v].tag
                /\ \A k \in (v + 1)..(i - 1) : ~Concerns(k, L)
          /\ pc = "run" =>
                \E j \in (i + 1)..Len(log) :
                   /\ IsRefill(log[j]) /\ log[j].from = L
                   /\ log[j].lv = log[i].lv
                   /\ log[j].size = obj[L].linesz
                   /\ \A k \in (i + 1)..(j - 1) : ~Concerns(k, L)

C2_Witness ==
    /\ pc = "run"
    /\ \E i \in DOMAIN log : IsWriteback(log[i])

(***************************************************************************)
(* C3.  No duplicate residency: no level holds, in one set, two VALID tags *)
(* of the same line number (DIRTY ignored).                                *)
(***************************************************************************)
C3_NoDuplicateResidency ==
    CallbackInstalled =>
    \A lv \in Levels :
       \A i, j \in DOMAIN obj[lv].tags :
          (/\ i # j
           /\ i \div obj[lv].ways = j \div obj[lv].ways
           /\ Tag63 \subseteq obj[lv].tags[i])
          => obj[lv].tags[i] \ Tag62 # obj[lv].tags[j] \ Tag62

(***************************************************************************)
(* C4.  A tag with DIRTY (bit 62) set has VALID (bit 63) set, in the tag   *)
(* array and in the map of every level.                                    *)
(***************************************************************************)
C4_DirtyImpliesValid ==
    \A lv \in Levels :
       /\ \A i \in DOMAIN obj[lv].tags :
             Tag62 \subseteq obj[lv].tags[i] => Tag63 \subseteq obj[lv].tags[i]
       /\ \A e \in obj[lv].fa_tags :
             Tag62 \subseteq e[2] => Tag63 \subseteq e[2]

C4_Witness ==
    \E lv \in Levels : \E i \in DOMAIN obj[lv].tags :
       Tag62 \subseteq obj[lv].tags[i]

(***************************************************************************)
(* C5, C6.  Scenario S4: L1D = 1:1:8 wired to L2 = 1:1:8; STORE paddr 0x0  *)
(* (1 byte), then STORE paddr 0x40.                                        *)
(***************************************************************************)
S4Run ==
    /\ pc = "run"
    /\ HasShape("D$", 1, 1, 8) /\ HasShape("L2$", 1, 1, 8)
    /\ obj["D$"].miss_handler = "L2$"
    /\ Len(hist) = 2
    /\ hist[1].type = "STORE" /\ hist[1].paddr = {} /\ hist[1].bytes = 1
    /\ hist[2].type = "STORE" /\ hist[2].paddr = {6}

\* C5.  After S4, L1D.writebacks = 1 and L2.write_accesses = 1.
C5_S4WritebackPropagates ==
    S4Run => /\ obj["D$"].writebacks = 1
             /\ obj["L2$"].write_accesses = 1

C5_Witness == S4Run /\ obj["D$"].write_misses = 2

\* C6 as stated.  After S4, L2.write_misses = 1: the writeback of line 0
\* misses in L2.
C6_S4WritebackMissesL2 ==
    (S4Run /\ CallbackInstalled) => obj["L2$"].write_misses = 1

\* C6 as amended.  After S4, L2.write_misses = 0: the writeback of line 0 hits
\* in L2, which holds line 0 since the refill of the first STORE, and leaves
\* the line DIRTY there, so that L2's own refill of line 8 evicts it
\* (L2.writebacks = 1).
C6_S4WritebackHitsL2 ==
    S4Run => /\ obj["L2$"].write_misses = 0
             /\ obj["L2$"].read_misses = 2
             /\ obj["L2$"].writebacks = 1

C6_Witness == S4Run /\ obj["L2$"].write_accesses = 1

(***************************************************************************)
(* C7.  Counter identity at L1: L1D.read_accesses, write_accesses and      *)
(* L1I.read_accesses are the numbers of cachesim_ld, cachesim_st and       *)
(* cachesim_fc calls; bytes_read and bytes_written are the sums of their   *)
(* bytes arguments.                                                        *)
(***************************************************************************)
C7_CounterIdentity ==
    ("D$" \in Levels /\ "I$" \in Levels) =>
        /\ obj["D$"].read_accesses = HistCount(Len(hist), "LOAD")
        /\ obj["D$"].write_accesses = HistCount(Len(hist), "STORE")
        /\ obj["I$"].read_accesses = HistCount(Len(hist), "FETCH")
        /\ obj["D$"].bytes_read = HistBytes(Len(hist), "LOAD")
        /\ obj["D$"].bytes_written = HistBytes(Len(hist), "STORE")
        /\ obj["I$"].bytes_read = HistBytes(Len(hist), "FETCH")

C7_Witness ==
    /\ "D$" \in Levels
    /\ Len(hist) = 2
    /\ obj["D$"].read_misses = 1
    /\ obj["D$"].read_accesses = 2
    /\ obj["D$"].bytes_read = 3

(***************************************************************************)
(* C8.  The miss callback is called once per miss of the levels with       *)
(* trace_miss: the number of calls is the sum of their miss counters; a    *)
(* call comes from a level with trace_miss, right after the access that    *)
(* misses and before its victimize, with that level's linesz and the       *)
(* access's store flag.  With L1D and L2 and no L3, a first LOAD 0x0 gives *)
(* one call (paddr 0, store false) and a second LOAD 0x0 gives none.       *)
(***************************************************************************)
RECURSIVE SumMisses(_)
SumMisses(S) ==
    IF S = {} THEN 0
    ELSE LET lv == CHOOSE x \in S : TRUE
         IN obj[lv].read_misses + obj[lv].write_misses + SumMisses(S \ {lv})

\* The general part of C8.
C8_CallbackPerMiss ==
    pc = "run" =>
       /\ cbs = SumMisses({lv \in Levels : obj[lv].trace_miss})
       /\ \A i \in DOMAIN log :
             IsCallback(log[i]) =>
                /\ obj[log[i].lv].trace_miss
                /\ log[i].size = obj[log[i].lv].linesz
                /\ i > 1 /\ log[i - 1].ev = "access"
                /\ log[i - 1].lv = log[i].lv
                /\ log[i - 1].store = log[i].store
                /\ i < Len(log) /\ log[i + 1].ev = "victimize"
                /\ log[i + 1].lv = log[i].lv

S6Run ==
    /\ pc = "run" /\ CallbackInstalled
    /\ "D$" \in Levels /\ "L2$" \in Levels /\ cache_l3 = "NULL"
    /\ hist # <<>>
    /\ \A i \in DOMAIN hist : hist[i].type = "LOAD" /\ hist[i].paddr = {}

\* The scenario of C8 (S6).
C8_S6 ==
    S6Run =>
       LET calls == SelectSeq(log, IsCallback)
       IN IF Len(hist) = 1
          THEN /\ Len(calls) = 1
               /\ calls[1].paddr = {} /\ calls[1].store = FALSE
          ELSE calls = <<>>

\* C8.  The callback is called once per miss of the levels with trace_miss,
\* by such a level only, on a miss only, with its linesz and the store flag of
\* the access; and scenario S6 gives one call, then none.
C8_MissCallback == C8_CallbackPerMiss /\ C8_S6

(***************************************************************************)
(* C9.  Alignment: the vaddr and paddr of every call of the miss callback  *)
(* are multiples of the calling level's linesz, and so are the vaddr and   *)
(* paddr of every call (refill or writeback) a level makes into its        *)
(* miss_handler.                                                           *)
(***************************************************************************)
C9_Alignment ==
    Alive =>
    \A i \in DOMAIN log :
       /\ IsCallback(log[i]) =>
             /\ Aligned(log[i].vaddr, obj[log[i].lv].linesz)
             /\ Aligned(log[i].paddr, obj[log[i].lv].linesz)
       /\ IsCall(log[i]) =>
             /\ Aligned(log[i].vaddr, obj[log[i].from].linesz)
             /\ Aligned(log[i].paddr, obj[log[i].from].linesz)

\* An unaligned STORE displaced the DIRTY line an earlier STORE had left:
\* writeback, refill and callback all carry addresses derived from it.
C9_Witness ==
    /\ pc = "run"
    /\ Len(hist) = 2
    /\ hist[1].type = "STORE" /\ hist[2].type = "STORE"
    /\ ~Aligned(hist[2].paddr, 8) /\ ~Aligned(hist[2].vaddr, 8)
    /\ \E i, j, k \in DOMAIN log :
          IsWriteback(log[i]) /\ IsRefill(log[j]) /\ IsCallback(log[k])

(***************************************************************************)
(* C10.  Routing: a FETCH ingest makes one access on L1I (store false, the *)
(* arguments as ingested) and none on L1D and leaves L1D as it was; a LOAD *)
(* or STORE ingest makes one access on L1D (store iff STORE) and none on   *)
(* L1I and leaves L1I as it was.                                           *)
(***************************************************************************)
FromTracer(e) == e.ev = "access" /\ e.from = "tracer"

C10_Routed ==
    LET e == hist'[Len(hist')]
        tr == SelectSeq(log', FromTracer)
    IN (Len(hist') = Len(hist) + 1 /\ "I$" \in Levels /\ "D$" \in Levels) =>
          /\ Len(tr) = 1
          /\ tr[1].vaddr = e.vaddr /\ tr[1].paddr = e.paddr
          /\ tr[1].size = e.bytes
          /\ IF e.type = "FETCH"
             THEN /\ tr[1].lv = "I$" /\ tr[1].store = FALSE
                  /\ obj'["D$"] = obj["D$"]
             ELSE /\ tr[1].lv = "D$" /\ tr[1].store = (e.type = "STORE")
                  /\ obj'["I$"] = obj["I$"]

\* C10.  Every ingest is routed as C10_Routed says: FETCH to L1I alone, LOAD
\* and STORE to L1D alone, once, and the other L1 stays as it was.
C10_Routing == [][C10_Routed]_vars

C10_Witness ==
    /\ pc = "run" /\ Len(hist) = 2
    /\ hist[1].type = "STORE" /\ hist[2].type = "FETCH"
    /\ "I$" \in Levels /\ "D$" \in Levels
    /\ obj["I$"].read_misses = 1
    /\ obj["D$"].write_misses = 1

(***************************************************************************)
(* C11.  After init_cachesim trace_miss is set on the outermost constructed *)
(* level and on no other: on L3 if there is one, else on L2 if there is    *)
(* one, else on L1I and L1D; before init_cachesim it is set on none.       *)
(***************************************************************************)
Outermost ==
    IF "L3$" \in Levels THEN {"L3$"}
    ELSE IF "L2$" \in Levels THEN {"L2$"}
    ELSE {"I$", "D$"} \cap Levels

C11_TraceMissOutermost ==
    /\ Alive => \A lv \in Levels : obj[lv].trace_miss <=> lv \in Outermost
    /\ pc = "config" => \A lv \in Levels : ~obj[lv].trace_miss

\* A run with three levels and an ingest behind it: only L3 traces.
C11_Witness ==
    /\ pc = "run" /\ Len(hist) = 1
    /\ Levels = {"I$", "D$", "L2$", "L3$"}
    /\ obj["L3$"].trace_miss
    /\ ~obj["L2$"].trace_miss /\ ~obj["D$"].trace_miss /\ ~obj["I$"].trace_miss

(***************************************************************************)
(* C12.  A STORE to a fully-associative L1D (sets = 1, ways > 4) completes, *)
(* and afterwards the line of the store is resident in that level with     *)
(* VALID and DIRTY set.                                                    *)
(***************************************************************************)
\* The line of addr is held by level c with VALID and DIRTY, in the tag
\* array or in the map.
ResidentDirty(c, addr) ==
    LET tag == LineOf(c, addr) \cup VALID \cup DIRTY
    IN \/ \E i \in DOMAIN c.tags : c.tags[i] = tag
       \/ \E e \in c.fa_tags : e[1] = LineOf(c, addr) /\ e[2] = tag

C12_FAStoreContract ==
    ( /\ Alive /\ CallbackInstalled
      /\ Len(hist) = 1 /\ hist[1].type = "STORE"
      /\ "D$" \in Levels /\ obj["D$"].fa )
    => /\ pc = "run"
       /\ ResidentDirty(obj["D$"], hist[1].paddr)

(***************************************************************************)
(* C13.  The level behind a miss_handler has a linesz greater than or      *)
(* equal to that of the level that calls it, in every hierarchy the        *)
(* init_cache_l1 / l2 / l3 calls can build.                                *)
(***************************************************************************)
C13_HandlerLineNotSmaller ==
    \A lv \in Levels :
       obj[lv].miss_handler # "NULL" =>
          obj[obj[lv].miss_handler].linesz >= obj[lv].linesz

(***************************************************************************)
(* C14.  Every level construct() has accepted has sets, ways and linesz of *)
(* at least 1, so that no level ever evaluates lfsr.next() % ways with     *)
(* ways = 0.                                                               *)
(***************************************************************************)
C14_WaysPositive ==
    /\ \A lv \in Levels :
          obj[lv].sets >= 1 /\ obj[lv].ways >= 1 /\ obj[lv].linesz >= 1
    /\ Alive => \A i \in DOMAIN log :
                   log[i].ev = "victimize" => obj[log[i].lv].ways # 0

(***************************************************************************)
(* C15.  Configuration rejection: a call of construct() with a string that *)
(* lacks a ':' separator, has sets zero or not a power of two, or a linesz *)
(* below 8 or not a power of two, ends the process with the usage message  *)
(* and leaves no level behind, for the set-associative and for the         *)
(* fully-associative dispatch.                                             *)
(***************************************************************************)
NoSeparator == <<"8">>
OneSeparator == <<"1", ":", "1">>
SetsZero == <<"0", ":", "1", ":", "8">>
SetsNotPow2 == <<"3", ":", "1", ":", "8">>
LineSmall == <<"1", ":", "1", ":", "4">>
LineNotPow2 == <<"1", ":", "1", ":", "1", "2">>
FALineSmall == <<"1", ":", "5", ":", "4">>
FALineNotPow2 == <<"1", ":", "5", ":", "1", "2">>
Rejected == {NoSeparator, OneSeparator, SetsZero, SetsNotPow2, LineSmall,
             LineNotPow2, FALineSmall, FALineNotPow2}

\* The levels a call makes, and whether the call (the i-th) got as far as
\* construct(): init_cache_l2 looks for the L1s first.
LevelsOf(fn) == CASE fn = "init_cache_l1" -> {"I$", "D$"}
                  [] fn = "init_cache_l2" -> {"L2$"}
                  [] fn = "init_cache_l3" -> {"L3$"}
ConstructCalled(i) ==
    cfgs[i].fn = "init_cache_l2" => {"I$", "D$"} \subseteq Levels

C15_Rejection ==
    \A i \in DOMAIN cfgs :
       (cfgs[i].optstr \in Rejected /\ ConstructCalled(i)) =>
          /\ i = Len(cfgs)
          /\ pc = "exited"
          /\ err # <<>> /\ err[Len(err)] = Usage
          /\ LevelsOf(cfgs[i].fn) \cap Levels = {}

\* An L2 string of the fully-associative shape with a linesz of 12 ended the
\* process, the L1s being there.
C15_Witness ==
    /\ pc = "exited"
    /\ Len(cfgs) = 2
    /\ cfgs[2] = [fn |-> "init_cache_l2", optstr |-> FALineNotPow2]
    /\ {"I$", "D$"} \subseteq Levels
    /\ err[Len(err)] = Usage

(***************************************************************************)
(* C16.  Wiring preconditions are fatal: init_cache_l2 without both L1s    *)
(* and init_cache_l3 without an L2 end the process with a diagnostic, and  *)
(* no run goes on with an L2 that lacks the L1s or with an L3 that is not  *)
(* the miss_handler of an L2.                                              *)
(***************************************************************************)
NoL1 == "Cannot define L2 without L1 cache"
NoL2 == "Cannot define L3 without L2 cache"
HasL1s == cache_l1i # "NULL" /\ cache_l1d # "NULL"

C16_WiringFatal ==
    /\ pc \in {"config", "run"} =>
          /\ cache_l2 # "NULL" => HasL1s
          /\ cache_l3 # "NULL" =>
                cache_l2 # "NULL" /\ obj[cache_l2].miss_handler = cache_l3
    /\ \A i \in DOMAIN cfgs :
          /\ (cfgs[i].fn = "init_cache_l2" /\ ~HasL1s) =>
                /\ i = Len(cfgs) /\ pc = "exited"
                /\ err # <<>> /\ err[Len(err)] = NoL1
          /\ (cfgs[i].fn = "init_cache_l3" /\ cache_l2 = "NULL") =>
                /\ i = Len(cfgs) /\ pc = "exited"
                /\ err # <<>> /\ err[Len(err)] \in {NoL2, Usage}

\* init_cache_l3 with a string construct accepts, the L1s being there and
\* the L2 not, ended the process with its diagnostic.
C16_Witness ==
    /\ pc = "exited"
    /\ Len(cfgs) = 2
    /\ cfgs[1].fn = "init_cache_l1" /\ cfgs[2].fn = "init_cache_l3"
    /\ cfgs[2].optstr \notin Rejected
    /\ err[Len(err)] = NoL2

(***************************************************************************)
(* C17.  Determinism: two runs that build the same hierarchy and ingest the *)
(* same events end with the same counters and tag arrays at every level    *)
(* and the same sequence of calls of the miss callback.  Two runs agree up *)
(* to their first difference, so it is stated of one more ingest from a    *)
(* common state: all the ends the ingest can have are the same.            *)
(***************************************************************************)
\* The states in which an ingest of (type, a) can end.
EndsOf(type, a) ==
    LET s0 == [obj |-> obj, log |-> <<>>, cbs |-> cbs, crashed |-> FALSE,
               cb |-> cache_miss_callback]
    IN {memtracer_list_trace(s0, tracer, 1, a.vaddr, a.paddr, a.bytes,
                             type, ub) : ub \in UBOutcomes}

SameEnd(r1, r2) ==
    /\ r1.crashed = r2.crashed
    /\ r1.obj = r2.obj
    /\ r1.cbs = r2.cbs
    /\ SelectSeq(r1.log, IsCallback) = SelectSeq(r2.log, IsCallback)

Banners == IF HasL1s \/ cache_l2 # "NULL" \/ cache_l3 # "NULL" THEN 1 ELSE 0
StatsBlocks == IF pc = "destroyed" THEN SubSeq(out, Banners + 1, Len(out))
               ELSE <<>>
\* The levels the configuration has constructed and teardown deletes.
Constructed ==
    (IF HasL1s THEN {cache_l1i, cache_l1d} ELSE {})
       \cup ({cache_l2, cache_l3} \ {"NULL"})

(***************************************************************************)
(* C18.  Miss-rate bound: at every level read_misses <= read_accesses and  *)
(* write_misses <= write_accesses, so that every printed miss rate         *)
(* 100 * misses / accesses lies in [0, 100]; with no accesses no rate is   *)
(* computed.                                                               *)
(***************************************************************************)
C18_MissRateBound ==
    /\ \A lv \in Levels :
          /\ obj[lv].read_misses <= obj[lv].read_accesses
          /\ obj[lv].write_misses <= obj[lv].write_accesses
    /\ \A i \in DOMAIN StatsBlocks :
          /\ StatsBlocks[i].mr_den > 0
          /\ 0 <= StatsBlocks[i].mr_num
          /\ StatsBlocks[i].mr_num <= 100 * StatsBlocks[i].mr_den

\* A level was torn down with a miss rate strictly between 0 and 100.
C18_Witness ==
    /\ pc = "destroyed"
    /\ \E i \in DOMAIN StatsBlocks :
          /\ 0 < StatsBlocks[i].mr_num
          /\ StatsBlocks[i].mr_num < 100 * StatsBlocks[i].mr_den

(***************************************************************************)
(* C19.  On teardown every constructed level emits its stats block (its    *)
(* name, the seven counters, the miss rate), a level without accesses      *)
(* included.                                                               *)
(***************************************************************************)
C19_EveryLevelEmits ==
    pc = "destroyed" =>
       \A lv \in Constructed :
          \E i \in DOMAIN StatsBlocks : StatsBlocks[i].name = lv

\* The step of cachesim_destroy writes, for each level that has had an
\* access, one block with the level's name and counters, and nothing for a
\* level that has had none.
C19_Emitted ==
    (pc = "run" /\ pc' = "destroyed") =>
       LET new == SubSeq(out', Len(out) + 1, Len(out'))
           used == {lv \in Levels :
                       obj[lv].read_accesses + obj[lv].write_accesses > 0}
       IN /\ Levels = Constructed
          /\ Len(new) = Cardinality(used)
          /\ {new[i].name : i \in DOMAIN new} = used
          /\ \A i \in DOMAIN new :
                LET c == obj[new[i].name]
                IN /\ new[i].bytes_read = c.bytes_read
                   /\ new[i].bytes_written = c.bytes_written
                   /\ new[i].read_accesses = c.read_accesses
                   /\ new[i].write_accesses = c.write_accesses
                   /\ new[i].read_misses = c.read_misses
                   /\ new[i].write_misses = c.write_misses
                   /\ new[i].writebacks = c.writebacks
                   /\ new[i].mr_num = 100 * (c.read_misses + c.write_misses)
                   /\ new[i].mr_den = c.read_accesses + c.write_accesses

\* C19 as amended: on teardown exactly the levels that have had an access
\* emit their stats block.
C19_UsedLevelsEmit == [][C19_Emitted]_vars

\* Torn down with L1I never accessed: blocks of L1D and L2, none of L1I.
C19_Witness ==
    /\ pc = "destroyed"
    /\ Constructed = {"I$", "D$", "L2$"}
    /\ {StatsBlocks[i].name : i \in DOMAIN StatsBlocks} = {"D$", "L2$"}

(***************************************************************************)
(* C20.  cachesim_destroy emits the stats blocks in the order I$, D$, L2$, *)
(* L3$: no level's block comes before that of a level above it.            *)
(***************************************************************************)
Rank(name) == CASE name = "I$" -> 1 [] name = "D$" -> 2
                [] name = "L2$" -> 3 [] name = "L3$" -> 4

C20_TeardownOrder ==
    \A i, j \in DOMAIN StatsBlocks :
       i < j => Rank(StatsBlocks[i].name) < Rank(StatsBlocks[j].name)

\* All four levels have emitted their blocks.
C20_Witness ==
    /\ pc = "destroyed"
    /\ Len(StatsBlocks) = 4
    /\ StatsBlocks[1].name = "I$" /\ StatsBlocks[4].name = "L3$"

(***************************************************************************)
(* Vocabulary of the claims about one ingest on L1D.                       *)
(***************************************************************************)
\* The step is an ingest of a LOAD or STORE that L1D has survived.
L1DStep ==
    /\ Len(hist') = Len(hist) + 1
    /\ hist'[Len(hist')].type \in {"LOAD", "STORE"}
    /\ pc' = "run"
    /\ "D$" \in Levels
\* The ingest of the step, the set it indexes in L1D and the tag of its line.
Ingested == hist'[Len(hist')]
IdxOf(c, addr) == Val(Shr(addr, c.idx_shift) \cap W(c.sets - 1))
TagOf(c, addr) == Shr(addr, c.idx_shift) \cup VALID
Misses(c) == c.read_misses + c.write_misses
\* The ingests so far are LOADs of the physical addresses ps.
LoadsOf(ps) ==
    /\ Len(hist) = Len(ps)
    /\ \A i \in DOMAIN hist : hist[i].type = "LOAD" /\ hist[i].paddr = ps[i]

(***************************************************************************)
(* C26.  A miss in a set-associative level rewrites one slot: way          *)
(* lfsr.next() mod ways of the set (paddr >> idx_shift) & (sets-1), which  *)
(* becomes (paddr >> idx_shift) | VALID with the line-aligned vaddr as its *)
(* src; every other slot stays as it was.  S2: with 2:1:8, LOAD 0x0, 0x8,  *)
(* 0x0, 0x8 gives read_misses = 2.                                         *)
(***************************************************************************)
C26_OneSlot ==
    (L1DStep /\ Misses(obj'["D$"]) = Misses(obj["D$"]) + 1) =>
       LET c == obj["D$"]
           d == obj'["D$"]
           way == WordMod(lfsr_next(c.lfsr), c.ways)
           at == IdxOf(c, Ingested.paddr) * c.ways + way
       IN /\ AndNot(d.tags[at], DIRTY) = TagOf(c, Ingested.paddr)
          /\ d.srcs[at] = AndNot(Ingested.vaddr, W(c.linesz - 1))
          /\ \A i \in DOMAIN c.tags \ {at} :
                d.tags[i] = c.tags[i] /\ d.srcs[i] = c.srcs[i]

S2Run ==
    /\ pc = "run"
    /\ HasShape("D$", 2, 1, 8) /\ obj["D$"].miss_handler = "NULL"
    /\ LoadsOf(<<W(0), W(8), W(0), W(8)>>)

C26_S2 == S2Run => obj["D$"].read_misses = 2

\* C26.  Every miss of L1D rewrites the one slot victimize chooses, and S2
\* ends with two read misses.
C26_MissRewritesOneSlot == [][C26_OneSlot]_vars /\ []C26_S2

\* S2 has run: four loads, the last two of them hits.
C26_Witness ==
    S2Run /\ obj["D$"].read_accesses = 4 /\ obj["D$"].read_misses = 2

(***************************************************************************)
(* C27.  Conflict miss in a one-way set: with ways = 1, an access to a     *)
(* line other than the resident line of its set misses and replaces it.   *)
(* S3: with 1:1:8, LOAD 0x0, LOAD 0x40, LOAD 0x0 gives read_accesses = 3   *)
(* and read_misses = 3.                                                    *)
(***************************************************************************)
C27_Conflict ==
    LET c == obj["D$"]
        d == obj'["D$"]
        idx == IdxOf(c, Ingested.paddr)
    IN ( /\ L1DStep /\ c.ways = 1
         /\ 63 \in c.tags[idx]
         /\ AndNot(c.tags[idx], DIRTY) # TagOf(c, Ingested.paddr) )
       => /\ Misses(d) = Misses(c) + 1
          /\ AndNot(d.tags[idx], DIRTY) = TagOf(c, Ingested.paddr)

S3Run ==
    /\ pc = "run"
    /\ HasShape("D$", 1, 1, 8) /\ obj["D$"].miss_handler = "NULL"
    /\ LoadsOf(<<W(0), W(64), W(0)>>)

C27_S3 ==
    S3Run => obj["D$"].read_accesses = 3 /\ obj["D$"].read_misses = 3

\* C27.  In a one-way set every access to another line than the resident
\* one misses and replaces it, and S3 ends with three misses of three loads.
C27_ConflictMiss == [][C27_Conflict]_vars /\ []C27_S3

\* S3 has run with the callback installed: line 0 is resident again.
C27_Witness ==
    /\ S3Run /\ CallbackInstalled
    /\ obj["D$"].tags[0] = VALID

(***************************************************************************)
(* C21.  Every ingest ends after a bounded chain of misses: it makes one   *)
(* access on an L1, at most two on L2 (a writeback and a refill) and at    *)
(* most four on L3, and every call of access goes one level down (tracer   *)
(* to L1, L1 to L2, L2 to L3), so that no level is entered while it runs.  *)
(***************************************************************************)
AccessesAt(lv) ==
    Cardinality({i \in DOMAIN log : log[i].ev = "access" /\ log[i].lv = lv})
Depth(name) == CASE name = "tracer" -> 0
                 [] name \in {"I$", "D$"} -> 1
                 [] name = "L2$" -> 2
                 [] name = "L3$" -> 3

\* The calls the access logged at i makes into the next level: those logged
\* after it and before the next access of its level.
CallsOf(i) ==
    {j \in DOMAIN log :
        /\ j > i /\ log[j].ev = "access" /\ log[j].from = log[i].lv
        /\ ~\E k \in (i + 1)..(j - 1) :
              log[k].ev = "access" /\ log[k].lv = log[i].lv}

C21_BoundedChain ==
    (Alive /\ HasL1s /\ hist # <<>>) =>
       /\ AccessesAt("I$") + AccessesAt("D$") = 1
       /\ AccessesAt("L2$") <= 2
       /\ AccessesAt("L3$") <= 4
       /\ \A i \in DOMAIN log :
             log[i].ev = "access" =>
                /\ Depth(log[i].lv) = Depth(log[i].from) + 1
                /\ Cardinality(CallsOf(i)) <= 2

\* An ingest whose miss went down to L3 with a writeback on the way: two
\* calls from L1D into L2, and two from one access of L2 into L3.
C21_Witness ==
    /\ pc = "run"
    /\ AccessesAt("D$") = 1
    /\ AccessesAt("L2$") = 2
    /\ \E i \in DOMAIN log :
          /\ log[i].ev = "access" /\ log[i].lv = "L2$"
          /\ Cardinality(CallsOf(i)) = 2

(***************************************************************************)
(* C22.  In a fully-associative level a miss on line number k inserts      *)
(* k -> (k | VALID) into the map check_tag consults, so that the map never *)
(* holds more than ways entries and the line is found by the next lookup.  *)
(* Stated of L1D after a LOAD: the line of the load is in the map.         *)
(***************************************************************************)
C22_FAMapHoldsLine ==
    ( /\ pc = "run" /\ CallbackInstalled
      /\ "D$" \in Levels /\ obj["D$"].fa
      /\ hist # <<>> /\ hist[Len(hist)].type = "LOAD" )
    => LET c == obj["D$"]
           k == LineOf(c, hist[Len(hist)].paddr)
       IN /\ Cardinality(c.fa_tags) <= c.ways
          /\ <<k, k \cup VALID>> \in c.fa_tags

(***************************************************************************)
(* C23.  Write-allocate / write-back accounting: between ingests,          *)
(* L2.read_accesses = L1I.read_misses + L1D.read_misses + L1D.write_misses *)
(* and L2.write_accesses = L1I.writebacks + L1D.writebacks (a store miss   *)
(* reaches L2 as a read, L2 sees a write only for an evicted dirty line);  *)
(* the same holds between L2 and L3.                                       *)
(***************************************************************************)
C23_Accounting ==
    pc = "run" =>
       /\ "L2$" \in Levels =>
             /\ obj["L2$"].read_accesses =
                   obj["I$"].read_misses + obj["D$"].read_misses
                      + obj["D$"].write_misses
             /\ obj["L2$"].write_accesses =
                   obj["I$"].writebacks + obj["D$"].writebacks
       /\ "L3$" \in Levels =>
             /\ obj["L3$"].read_accesses =
                   obj["L2$"].read_misses + obj["L2$"].write_misses
             /\ obj["L3$"].write_accesses = obj["L2$"].writebacks

\* A store miss and a dirty eviction have gone through both relations.
C23_Witness ==
    /\ pc = "run" /\ "L3$" \in Levels
    /\ obj["D$"].write_misses = 2
    /\ obj["L2$"].write_accesses = 1
    /\ obj["L3$"].write_accesses = 1

(***************************************************************************)
(* C24.  The writebacks counter of a level is the number of times          *)
(* victimize displaced a VALID and DIRTY slot there, with or without a     *)
(* miss_handler; at a level without miss_handler a dirty eviction makes no *)
(* call into a next level and no call of the callback beyond the one of    *)
(* the miss.                                                               *)
(***************************************************************************)
\* The entries of the trail that are victimize calls of lv, and those that
\* displaced a VALID and DIRTY tag.
VictimizedAt(lv) ==
    {i \in DOMAIN trail : trail[i].ev = "victimize" /\ trail[i].lv = lv}
DirtyVictimsAt(lv) ==
    {i \in VictimizedAt(lv) : {62, 63} \subseteq trail[i].tag}
CallbacksAt(lv) ==
    {i \in DOMAIN trail : trail[i].ev = "callback" /\ trail[i].lv = lv}

C24_WritebacksCounted ==
    pc = "run" =>
       \A lv \in Levels :
          /\ obj[lv].writebacks = Cardinality(DirtyVictimsAt(lv))
          /\ obj[lv].miss_handler = "NULL" =>
                /\ ~\E i \in DOMAIN trail :
                      trail[i].ev = "access" /\ trail[i].from = lv
                /\ Cardinality(CallbacksAt(lv)) =
                      IF obj[lv].trace_miss
                      THEN Cardinality(VictimizedAt(lv)) ELSE 0

\* L1D is the outermost level and has evicted a dirty line: one writeback
\* counted, two misses, two calls of the callback.
C24_Witness ==
    /\ pc = "run" /\ CallbackInstalled
    /\ Levels = {"I$", "D$"}
    /\ obj["D$"].writebacks = 1
    /\ Cardinality(CallbacksAt("D$")) = 2

(***************************************************************************)
(* C25.  A hit changes nothing but the access and byte counters and, for a *)
(* STORE, the DIRTY bit of the hit slot: the LFSR, the miss and writeback  *)
(* counters, every other tag, every src and every lower level stay as they *)
(* were, and the miss callback is not called.                              *)
(***************************************************************************)
\* The step is an ingest in which every access made to lv was a hit.
HitsOnlyAt(lv) ==
    /\ Len(hist') = Len(hist) + 1
    /\ pc' = "run"
    /\ lv \in Levels
    /\ \E i \in DOMAIN log' : log'[i].ev = "access" /\ log'[i].lv = lv
    /\ ~\E i \in DOMAIN log' : log'[i].ev = "victimize" /\ log'[i].lv = lv
\* Slot i of lv is the slot a STORE of the step hit.
StoreHitSlot(lv, i) ==
    \E k \in DOMAIN log' :
       /\ log'[k].ev = "access" /\ log'[k].lv = lv /\ log'[k].store
       /\ i \div obj[lv].ways = IdxOf(obj[lv], log'[k].paddr)
       /\ AndNot(obj[lv].tags[i], DIRTY) = TagOf(obj[lv], log'[k].paddr)

C25_HitFrame ==
    \A lv \in Levels :
       HitsOnlyAt(lv) =>
          /\ obj'[lv] = [obj[lv] EXCEPT
                           !.read_accesses = obj'[lv].read_accesses,
                           !.write_accesses = obj'[lv].write_accesses,
                           !.bytes_read = obj'[lv].bytes_read,
                           !.bytes_written = obj'[lv].bytes_written,
                           !.tags = obj'[lv].tags]
          /\ \A i \in DOMAIN obj[lv].tags :
                \/ obj'[lv].tags[i] = obj[lv].tags[i]
                \/ /\ obj'[lv].tags[i] = obj[lv].tags[i] \cup DIRTY
                   /\ StoreHitSlot(lv, i)
          /\ \A l \in Levels : Depth(l) > Depth(lv) => obj'[l] = obj[l]
          /\ ~\E k \in DOMAIN log' :
                log'[k].ev = "callback" /\ log'[k].lv = lv
          /\ Depth(lv) = 1 => cbs' = cbs /\ Len(log') = 1

C25_HitChangesLittle == [][C25_HitFrame]_vars

\* A STORE has hit the clean line a LOAD brought into L1D, above an L2.
C25_Witness ==
    /\ pc = "run" /\ {"D$", "L2$"} \subseteq Levels
    /\ Len(hist) = 2 /\ hist[1].type = "LOAD" /\ hist[2].type = "STORE"
    /\ hist[1].paddr = hist[2].paddr
    /\ Len(log) = 1
    /\ obj["D$"].read_misses = 1 /\ obj["D$"].write_misses = 0
    /\ ResidentDirty(obj["D$"], hist[2].paddr)

(***************************************************************************)
(* C28.  A dirty line still hits and stays dirty: a LOAD or STORE to a     *)
(* line that is resident and DIRTY in set-associative L1D is a hit and     *)
(* leaves it DIRTY, and a slot of any level loses DIRTY only in a step in  *)
(* which victimize overwrote that slot.                                    *)
(***************************************************************************)
\* A victimize call of the step displaced tag from the set of slot i of lv.
Displaced(lv, i, tag) ==
    \E k \in DOMAIN log' :
       /\ log'[k].ev = "victimize" /\ log'[k].lv = lv /\ log'[k].tag = tag
       /\ IdxOf(obj[lv], log'[k].paddr) = i \div obj[lv].ways

C28_Step ==
    /\ ( /\ L1DStep /\ ~obj["D$"].fa
         /\ ResidentDirty(obj["D$"], Ingested.paddr) )
       => /\ Misses(obj'["D$"]) = Misses(obj["D$"])
          /\ ResidentDirty(obj'["D$"], Ingested.paddr)
    /\ (Len(hist') = Len(hist) + 1 /\ pc' = "run")
       => \A lv \in Levels : \A i \in DOMAIN obj[lv].tags :
             (62 \in obj[lv].tags[i] /\ 62 \notin obj'[lv].tags[i])
             => Displaced(lv, i, obj[lv].tags[i])

C28_DirtyStillHits == [][C28_Step]_vars

\* A STORE made the line dirty, and two LOADs of it have hit since.
C28_Witness ==
    /\ pc = "run" /\ "D$" \in Levels
    /\ Len(hist) = 3
    /\ hist[1].type = "STORE" /\ hist[2].type = "LOAD" /\ hist[3].type = "LOAD"
    /\ hist[2].paddr = hist[1].paddr /\ hist[3].paddr = hist[1].paddr
    /\ obj["D$"].write_misses = 1 /\ obj["D$"].read_misses = 0
    /\ obj["D$"].read_accesses = 2
    /\ ResidentDirty(obj["D$"], hist[1].paddr)

(***************************************************************************)
(* C29.  Writeback address round trip: the paddr of every writeback a      *)
(* level issues is the line-aligned paddr of an earlier access that missed *)
(* at this level and so installed the line, the vaddr is the line-aligned  *)
(* vaddr of that access, and the line has received a STORE at this level   *)
(* since.                                                                  *)
(***************************************************************************)
\* Entry i of the trail is an access to lv that missed: victimize was called
\* for it before the next access to lv.
Installs(i, lv) ==
    /\ trail[i].ev = "access" /\ trail[i].lv = lv
    /\ \E v \in DOMAIN trail :
          /\ v > i /\ trail[v].ev = "victimize" /\ trail[v].lv = lv
          /\ ~\E m \in (i + 1)..(v - 1) :
                trail[m].ev = "access" /\ trail[m].lv = lv

C29_WritebackRoundTrip ==
    Alive =>
       \A k \in DOMAIN trail :
          IsWriteback(trail[k]) =>
             LET lv == trail[k].from
                 sz == obj[lv].linesz
             IN \E i \in 1..(k - 1) :
                  /\ Installs(i, lv)
                  /\ line_align(trail[i].paddr, sz) = trail[k].paddr
                  /\ line_align(trail[i].vaddr, sz) = trail[k].vaddr
                  /\ \E j \in i..(k - 1) :
                        /\ trail[j].ev = "access" /\ trail[j].lv = lv
                        /\ trail[j].store
                        /\ line_align(trail[j].paddr, sz) = trail[k].paddr

\* L1D has written the line of 0x40 back with its virtual address 0x2040,
\* and L2 has written a line back to L3.
C29_Witness ==
    /\ pc = "run"
    /\ \E k \in DOMAIN trail :
          /\ IsWriteback(trail[k]) /\ trail[k].from = "D$"
          /\ trail[k].paddr = W(64) /\ trail[k].vaddr = W(8256)
    /\ \E k \in DOMAIN trail : IsWriteback(trail[k]) /\ trail[k].from = "L2$"

(***************************************************************************)
(* C30.  Whenever a level with trace_miss takes a miss, the function       *)
(* pointer cache_miss_callback it calls has been installed: no sequence of *)
(* lifecycle calls followed by ingests calls it while it is null.          *)
(***************************************************************************)
C30_CallbackInstalled ==
    \A i \in DOMAIN log : IsCallback(log[i]) => log[i].from # "NULL"

(***************************************************************************)
(* C31.  After cachesim_destroy no ingest reaches a destroyed level: a     *)
(* later cachesim_ld / cachesim_st / cachesim_fc never calls access on a   *)
(* deleted level, and a second cachesim_destroy never deletes a level      *)
(* twice.                                                                  *)
(***************************************************************************)
C31_NoUseAfterDestroy ==
    /\ \A i, j \in DOMAIN trail :
          (i < j /\ trail[i].ev = "delete" /\ trail[j].ev = "access")
          => trail[j].lv # trail[i].lv
    /\ \A i, j \in DOMAIN trail :
          (i < j /\ trail[i].ev = "delete" /\ trail[j].ev = "delete")
          => trail[j].lv # trail[i].lv

(***************************************************************************)
(* C32.  Gating by the host tracer: while memtrace_is_started is false an  *)
(* access is neither ingested nor logged; while it is true and             *)
(* cachesim_enable is true, an access that is not split is ingested once,  *)
(* by the entry point of its type, and never logged directly, so that      *)
(* trace lines come only from the miss callback of the outermost level;    *)
(* while cachesim_enable is false the access is logged directly and no     *)
(* cache is touched.                                                       *)
(***************************************************************************)
\* The call of memtrace the step makes, the ingests it has led to, and
\* whether memtrace splits it.
MtCall == mt'[Len(mt')]
MtIngests == SubSeq(hist', Len(hist) + 1, Len(hist'))
MtSplit ==
    /\ (W(MtCall.size - 1) \cap MtCall.vaddr) # {}
    /\ Val(MtCall.vaddr \cap W(4095)) + MtCall.size >= 4096
\* The calls of the miss callback the step has made at the outermost level.
MtCallbacks ==
    {k \in DOMAIN log' : log'[k].ev = "callback" /\ log'[k].lv \in Outermost}

C32_Step ==
    Len(mt') = Len(mt) + 1 =>
       /\ ~memtrace_is_started =>
             /\ MtIngests = <<>> /\ MtCall.direct = <<>>
             /\ obj' = obj /\ log' = <<>> /\ memtrace_out' = memtrace_out
       /\ (memtrace_is_started /\ cachesim_enable) =>
             /\ MtCall.direct = <<>>
             /\ ~MtSplit =>
                   /\ Len(MtIngests) = 1
                   /\ MtIngests[1].type = MtCall.type
                   /\ MtIngests[1].vaddr = MtCall.vaddr
                   /\ MtIngests[1].bytes = MtCall.size
             /\ Len(memtrace_out') - Len(memtrace_out)
                   <= Cardinality(MtCallbacks)
       /\ (memtrace_is_started /\ ~cachesim_enable) =>
             /\ MtIngests = <<>> /\ obj' = obj /\ log' = <<>>
             /\ Len(MtCall.direct) = IF MtSplit THEN 2 ELSE 1
             /\ MtCall.direct[1].vaddr = MtCall.vaddr
             /\ MtCall.direct[1].is_store = (MtCall.type = "STORE")

C32_HostGating == [][C32_Step]_vars

\* An access was logged directly before init_cachesim; a second one was
\* ingested once and its line came from the miss callback of the L2.
C32_Witness ==
    /\ pc = "run" /\ "L2$" \in Levels
    /\ Len(mt) = 2 /\ Len(hist) = 1
    /\ mt[1].direct # <<>> /\ mt[2].direct = <<>>
    /\ hist[1].type = mt[2].type
    /\ Len(memtrace_out) = 2
    /\ cbs = 1

(***************************************************************************)
(* C33.  The instruction cache never holds dirty data: L1I has             *)
(* write_accesses = 0, write_misses = 0, bytes_written = 0 and             *)
(* writebacks = 0, none of its tags has DIRTY set, and it never issues a   *)
(* writeback to L2.                                                        *)
(***************************************************************************)
C33_ICacheClean ==
    (Alive /\ "I$" \in Levels) =>
       /\ obj["I$"].write_accesses = 0
       /\ obj["I$"].write_misses = 0
       /\ obj["I$"].bytes_written = 0
       /\ obj["I$"].writebacks = 0
       /\ \A i \in DOMAIN obj["I$"].tags : 62 \notin obj["I$"].tags[i]
       /\ \A e \in obj["I$"].fa_tags : 62 \notin e[2]
       /\ \A k \in DOMAIN trail :
             ~(IsWriteback(trail[k]) /\ trail[k].from = "I$")

\* L1I has missed twice and so replaced a line, above an L2 that has seen
\* two refills and no writeback.
C33_Witness ==
    /\ pc = "run" /\ {"I$", "L2$"} \subseteq Levels
    /\ obj["I$"].read_misses = 2
    /\ \E i \in DOMAIN obj["I$"].tags : obj["I$"].tags[i] = W(8) \cup VALID
    /\ obj["L2$"].read_accesses = 2 /\ obj["L2$"].write_accesses = 0

(***************************************************************************)
(* C34.  Set-index invariant: every VALID tag stored in set s of a level   *)
(* has (line number & (sets-1)) = s.                                       *)
(***************************************************************************)
C34_SetIndex ==
    Alive =>
       \A lv \in Levels : \A i \in DOMAIN obj[lv].tags :
          63 \in obj[lv].tags[i] =>
             Val(AndNot(obj[lv].tags[i], VALID \cup DIRTY)
                    \cap W(obj[lv].sets - 1))
                = i \div obj[lv].ways

\* L1D has two sets and a VALID line in each.
C34_Witness ==
    /\ pc = "run" /\ "D$" \in Levels
    /\ obj["D$"].sets = 2
    /\ \E i, j \in DOMAIN obj["D$"].tags :
          /\ i \div obj["D$"].ways = 0 /\ j \div obj["D$"].ways = 1
          /\ 63 \in obj["D$"].tags[i] /\ 63 \in obj["D$"].tags[j]

(***************************************************************************)
(* C35.  Dirty evictions are bounded by stores: at every level             *)
(* writebacks <= write_accesses.                                           *)
(***************************************************************************)
C35_WritebacksBounded ==
    Alive => \A lv \in Levels : obj[lv].writebacks <= obj[lv].write_accesses

\* The bound is met: L1D and L2 have each evicted the one line they were
\* given a store to.
C35_Witness ==
    /\ pc = "run" /\ {"D$", "L2$"} \subseteq Levels
    /\ obj["D$"].write_accesses = 1 /\ obj["D$"].writebacks = 1
    /\ obj["L2$"].write_accesses = 1 /\ obj["L2$"].writebacks = 1

=============================================================================
